---- MODULE Spec2Model ----
(***************************************************************************)
(* A model of the MPRIS controller library (src/src/lib.rs): the typed     *)
(* decoders of the D-Bus attribute maps, the registry of players kept by   *)
(* MprisClient, and the poll step MprisClient::event with the two handlers *)
(* it calls.                                                               *)
(*                                                                         *)
(* Encodings                                                               *)
(*   zvariant Value      <<tag, payload>>, tag in "Str", "Bool", "I32",    *)
(*                       "I64", "U64", "F64", "ObjectPath", "Array",       *)
(*                       "Dict"; a Dict's payload is a function from keys, *)
(*                       an Array's a sequence of Values                   *)
(*   Option<T>           <<>> for None, <<x>> for Some(x)                  *)
(*   Result<T, E>        <<"Ok", x>> or <<"Err">>                          *)
(*   u64                 <<k, r>> standing for k * 2^64 + r                *)
(*   bus name            <<head, rest>>, head the leading characters that  *)
(*                       starts_with compares with a prefix                *)
(*   f64                 an integer standing for the number                *)
(***************************************************************************)
EXTENDS Integers, Sequences, FiniteSets, TLC

VARIABLES
    players,                \* MprisClient.players: the registry entries
    owner_changed_signal,   \* MprisClient.owner_changed_signal: pending NameOwnerChanged bodies
    emitted,                \* the events event() has returned to its caller, in order
    panicked,               \* a handler has panicked (unwrap / unreachable!)
    live,                   \* history: names discovered and not removed since
    subscriptions,          \* per name, the SignalStreams of its PropertiesChanged not yet dropped
    inputs,                 \* number of signals delivered and of calls of add and get_all so far
    last                    \* history: what the last operation did

vars == <<players, owner_changed_signal, emitted, panicked, live, subscriptions, inputs, last>>

(***************************************************************************)
(* Bounds of the model.                                                    *)
(***************************************************************************)
MaxInputs == 3

(***************************************************************************)
(* Option and Result.                                                      *)
(***************************************************************************)
None == <<>>

Some(x) == <<x>>

Ok(x) == <<"Ok", x>>

Err == <<"Err">>

IsOk(r) == r[1] = "Ok"

Get(map, key) == IF key \in DOMAIN map THEN Some(map[key]) ELSE None

\* the element of a one-element set: { e(x) : x \in {v} } is e with v computed once
The(S) == CHOOSE x \in S : TRUE

(***************************************************************************)
(* Bus names (lib.rs 18-24).                                               *)
(***************************************************************************)
MPRIS_PREFIX == "org.mpris.MediaPlayer2"

StartsWith(name, prefix) == name[1] = prefix

(***************************************************************************)
(* Conversions of single values.                                           *)
(***************************************************************************)
PlaybackStatusFromValue(value) ==
    IF value[1] = "Str"
    THEN IF value[2] \in {"Stopped", "Paused", "Playing"} THEN Ok(value[2]) ELSE Err
    ELSE Err

LoopStatusFromValue(value) ==
    IF value[1] = "Str"
    THEN IF value[2] \in {"None", "Playlist", "Track"} THEN Ok(value[2]) ELSE Err
    ELSE Err

\* zvariant: bool::try_from(&Value) accepts Value::Bool only
BoolFromValue(value) == IF value[1] = "Bool" THEN Ok(value[2]) ELSE Err

\* zvariant: f64::try_from(&Value) accepts Value::F64 only
F64FromValue(value) == IF value[1] = "F64" THEN Ok(value[2]) ELSE Err

\* zvariant: String::try_from(&Value) accepts Value::Str only
StringFromValue(value) == IF value[1] = "Str" THEN Ok(value[2]) ELSE Err

\* zvariant: Vec<String>::try_from(Value) accepts an Array whose elements all are Str
StringVecFromValue(value) ==
    IF value[1] = "Array"
    THEN IF \A i \in 1..Len(value[2]) : value[2][i][1] = "Str"
         THEN Ok([i \in 1..Len(value[2]) |-> value[2][i][2]])
         ELSE Err
    ELSE Err

\* `*s as u64` on an i64: a negative s wraps to 2^64 + s
I64AsU64(s) == IF s >= 0 THEN <<0, s>> ELSE <<1, s>>

U64(s) == <<0, s>>

\* zvariant: HashMap<String, Value>::try_from(Value) accepts a Dict with string keys
DictFromValue(value) == IF value[1] = "Dict" THEN Ok(value[2]) ELSE Err

\* the filter_map of lines 286-292: the Str elements of an array, in order
RECURSIVE StrElements(_)
StrElements(arr) ==
    IF arr = <<>> THEN <<>>
    ELSE IF Head(arr)[1] = "Str"
         THEN <<Head(arr)[2]>> \o StrElements(Tail(arr))
         ELSE StrElements(Tail(arr))

(***************************************************************************)
(* Helpers for the match arms of the metadata decoders: the entry of the   *)
(* map under `key` as an optional field of one accepted variant.           *)
(***************************************************************************)
OptionalOf(map, key, tag) ==
    LET g == Get(map, key)
    IN  IF g = None THEN Ok(None)
        ELSE IF g[1][1] = tag THEN Ok(Some(g[1][2])) ELSE Err

\* mpris:length (lines 250-255): I64 and U64 are accepted
LengthOf(map) ==
    LET g == Get(map, "mpris:length")
    IN  IF g = None THEN Ok(None)
        ELSE IF g[1][1] = "I64" THEN Ok(Some(I64AsU64(g[1][2])))
        ELSE IF g[1][1] = "U64" THEN Ok(Some(U64(g[1][2])))
        ELSE Err

\* a plausible slip: a missing mpris:trackid defaulted to the empty string
TrackIdOrEmpty(map) ==
    LET g == Get(map, "mpris:trackid")
    IN  IF g = None THEN Ok("")
        ELSE IF g[1][1] \in {"ObjectPath", "Str"} THEN Ok(g[1][2]) ELSE Err

\* mpris:trackid (lines 256-260): an ObjectPath or a Str, required
TrackIdOf(map) ==
    LET g == Get(map, "mpris:trackid")
    IN  IF g = None THEN Err
        ELSE IF g[1][1] \in {"ObjectPath", "Str"} THEN Ok(g[1][2]) ELSE Err

\* try_into() of a value, by the type of the binding it is assigned to
TryInto(target, value) ==
    CASE target = "bool" -> BoolFromValue(value)
      [] target = "f64" -> F64FromValue(value)
      [] target = "String" -> StringFromValue(value)
      [] target = "Vec<String>" -> StringVecFromValue(value)
      [] target = "PlaybackStatus" -> PlaybackStatusFromValue(value)
      [] target = "LoopStatus" -> LoopStatusFromValue(value)

\* value.get(key).ok_or(..)?.try_into()? for a binding of type target
RequiredOf(map, key, target) ==
    LET g == Get(map, key)
    IN  IF g = None THEN Err ELSE TryInto(target, g[1])

\* value.get(key).map(TryInto::try_into).transpose()? for a binding of type target
TransposeOf(map, key, target) ==
    LET g == Get(map, key)
    IN  IF g = None THEN Ok(None)
        ELSE IF IsOk(TryInto(target, g[1])) THEN Ok(Some(TryInto(target, g[1])[2])) ELSE Err

\* xesam:albumArtist (lines 283-296): an Array gives its Str elements, anything else None
AlbumArtistOf(map) ==
    LET g == Get(map, "xesam:albumArtist")
    IN  IF g = None THEN None
        ELSE IF g[1][1] = "Array" THEN Some(StrElements(g[1][2])) ELSE None

(***************************************************************************)
(* impl TryFrom<HashMap<String, Value>> for Metadata (lines 236-338).      *)
(***************************************************************************)
MetadataFromMap(value) ==
    LET art_url      == OptionalOf(value, "mpris:artUrl", "Str")
        length       == LengthOf(value)
        trackid      == TrackIdOf(value)
        album        == OptionalOf(value, "xesam:album", "Str")
        artists      == RequiredOf(value, "xesam:artist", "Vec<String>")
        title        == RequiredOf(value, "xesam:title", "String")
        url          == RequiredOf(value, "xesam:url", "String")
        album_artist == AlbumArtistOf(value)
        track_number == OptionalOf(value, "xesam:trackNumber", "I32")
        disc_number  == OptionalOf(value, "xesam:discNumber", "I32")
        auto_rating  == OptionalOf(value, "xesam:autoRating", "F64")
    IN  IF /\ IsOk(art_url) /\ IsOk(length) /\ IsOk(trackid) /\ IsOk(album)
           /\ IsOk(artists) /\ IsOk(title) /\ IsOk(url)
           /\ IsOk(track_number) /\ IsOk(disc_number) /\ IsOk(auto_rating)
        THEN Ok([album_artists |-> album_artist,
                 art_url       |-> art_url[2],
                 length        |-> length[2],
                 trackid       |-> trackid[2],
                 album         |-> album[2],
                 artists       |-> artists[2],
                 title         |-> title[2],
                 url           |-> url[2],
                 track_number  |-> track_number[2],
                 disc_number   |-> disc_number[2],
                 auto_rating   |-> auto_rating[2]])
        ELSE Err

(***************************************************************************)
(* impl TryFrom<&Value> for Metadata (lines 130-234): as above, but a      *)
(* track number, disc number or rating of another type reaches             *)
(* unreachable!() and panics: <<"Panic">>.                                  *)
(***************************************************************************)
MetadataFromValue(value) ==
    IF ~IsOk(DictFromValue(value)) THEN Err
    ELSE
    LET map          == DictFromValue(value)[2]
        art_url      == OptionalOf(map, "mpris:artUrl", "Str")
        length       == LengthOf(map)
        trackid      == TrackIdOf(map)
        album        == OptionalOf(map, "xesam:album", "Str")
        artists      == RequiredOf(map, "xesam:artist", "Vec<String>")
        title        == RequiredOf(map, "xesam:title", "String")
        url          == RequiredOf(map, "xesam:url", "String")
        album_artist == AlbumArtistOf(map)
        track_number == OptionalOf(map, "xesam:trackNumber", "I32")
        disc_number  == OptionalOf(map, "xesam:discNumber", "I32")
        auto_rating  == OptionalOf(map, "xesam:autoRating", "F64")
    IN  IF ~(/\ IsOk(art_url) /\ IsOk(length) /\ IsOk(trackid) /\ IsOk(album)
             /\ IsOk(artists) /\ IsOk(title) /\ IsOk(url))
        THEN Err
        ELSE IF ~(IsOk(track_number) /\ IsOk(disc_number) /\ IsOk(auto_rating))
        THEN <<"Panic">>
        ELSE Ok([album_artists |-> album_artist,
                 art_url       |-> art_url[2],
                 length        |-> length[2],
                 trackid       |-> trackid[2],
                 album         |-> album[2],
                 artists       |-> artists[2],
                 title         |-> title[2],
                 url           |-> url[2],
                 track_number  |-> track_number[2],
                 disc_number   |-> disc_number[2],
                 auto_rating   |-> auto_rating[2]])

(***************************************************************************)
(* impl TryFrom<HashMap<&str, Value>> for PlayerCapabilities (360-448).    *)
(***************************************************************************)
\* the Metadata entry (lines 403-409): required, a Dict, decoded by MetadataFromMap
MetadataOf(map) ==
    LET g == Get(map, "Metadata")
    IN  IF g = None THEN Err
        ELSE IF IsOk(DictFromValue(g[1])) THEN MetadataFromMap(DictFromValue(g[1])[2]) ELSE Err

\* a plausible slip: the unsigned encoding only, as u64::try_from(&Value) has it
PositionUnsignedOnly(map) ==
    LET g == Get(map, "Position")
    IN  IF g = None THEN Err
        ELSE IF g[1][1] = "U64" THEN Ok(U64(g[1][2]))
        ELSE Err

\* the Position entry (lines 419-426): required, U64 or I64
PositionOf(map) ==
    LET g == Get(map, "Position")
    IN  IF g = None THEN Err
        ELSE IF g[1][1] = "U64" THEN Ok(U64(g[1][2]))
        ELSE IF g[1][1] = "I64" THEN Ok(I64AsU64(g[1][2]))
        ELSE Err

CapabilitiesFromMap(value) ==
    LET can_control     == RequiredOf(value, "CanControl", "bool")
        can_next        == RequiredOf(value, "CanGoNext", "bool")
        can_previous    == RequiredOf(value, "CanGoPrevious", "bool")
        can_pause       == RequiredOf(value, "CanPause", "bool")
        can_play        == RequiredOf(value, "CanPlay", "bool")
        can_seek        == RequiredOf(value, "CanSeek", "bool")
        shuffle         == TransposeOf(value, "Shuffle", "bool")
        loop_status     == TransposeOf(value, "LoopStatus", "LoopStatus")
        max_rate        == TransposeOf(value, "MaximumRate", "f64")
        min_rate        == TransposeOf(value, "MinimumRate", "f64")
        metadata        == MetadataOf(value)
        rate            == RequiredOf(value, "Rate", "f64")
        playback_status == RequiredOf(value, "PlaybackStatus", "PlaybackStatus")
        position        == PositionOf(value)
        volume          == TransposeOf(value, "Volume", "f64")
    IN  IF /\ IsOk(can_control) /\ IsOk(can_next) /\ IsOk(can_previous)
           /\ IsOk(can_pause) /\ IsOk(can_play) /\ IsOk(can_seek)
           /\ IsOk(shuffle) /\ IsOk(loop_status) /\ IsOk(max_rate) /\ IsOk(min_rate)
           /\ IsOk(metadata) /\ IsOk(rate) /\ IsOk(playback_status)
           /\ IsOk(position) /\ IsOk(volume)
        THEN Ok([can_control     |-> can_control[2],
                 can_next        |-> can_next[2],
                 can_previous    |-> can_previous[2],
                 can_pause       |-> can_pause[2],
                 can_play        |-> can_play[2],
                 can_seek        |-> can_seek[2],
                 loop_status     |-> loop_status[2],
                 max_rate        |-> max_rate[2],
                 min_rate        |-> min_rate[2],
                 metadata        |-> metadata[2],
                 playback_status |-> playback_status[2],
                 position        |-> position[2],
                 rate            |-> rate[2],
                 shuffle         |-> shuffle[2],
                 volume          |-> volume[2]])
        ELSE Err

(***************************************************************************)
(* The bus: the names, the NameOwnerChanged bodies, the replies to GetAll  *)
(* and the PropertiesChanged bodies the model draws its inputs from.       *)
(***************************************************************************)
P1 == <<MPRIS_PREFIX, ".vlc">>

P2 == <<MPRIS_PREFIX, ".mpv">>

Other == <<"org.freedesktop.Notifi", "cations">>

Names == {P1, P2, Other}

Owners == {"", ":1.7"}

\* (name, old_owner, new_owner): every change of owner of P1, and the gain
\* and the loss of the other names
OwnerBodies ==
    ({P1} \X Owners \X Owners) \cup
    { <<n, "", ":1.7">> : n \in {P2, Other} } \cup { <<n, ":1.7", "">> : n \in {P2, Other} }

Str(s) == <<"Str", s>>

Bool(b) == <<"Bool", b>>

MetaA ==
    ("mpris:trackid" :> <<"ObjectPath", "/track/1">>) @@
    ("xesam:artist" :> <<"Array", <<Str("a1"), Str("a2")>>>>) @@
    ("xesam:title" :> Str("t1")) @@
    ("xesam:url" :> Str("file:///1"))

MetaB ==
    ("mpris:trackid" :> Str("/track/2")) @@
    ("mpris:length" :> <<"I64", 7>>) @@
    ("xesam:album" :> Str("al")) @@
    ("xesam:artist" :> <<"Array", <<Str("b1")>>>>) @@
    ("xesam:title" :> Str("t2")) @@
    ("xesam:url" :> Str("file:///2"))

\* no xesam:artist: the decode fails
MetaNoArtist ==
    ("mpris:trackid" :> Str("/track/3")) @@
    ("xesam:title" :> Str("t3")) @@
    ("xesam:url" :> Str("file:///3"))

AttrsOf(status, previous, meta) ==
    ("CanControl" :> Bool(TRUE)) @@ ("CanGoNext" :> Bool(TRUE)) @@
    ("CanGoPrevious" :> Bool(previous)) @@ ("CanPause" :> Bool(TRUE)) @@
    ("CanPlay" :> Bool(TRUE)) @@ ("CanSeek" :> Bool(FALSE)) @@
    ("Metadata" :> <<"Dict", meta>>) @@ ("Rate" :> <<"F64", 1>>) @@
    ("PlaybackStatus" :> Str(status)) @@ ("Position" :> <<"U64", 0>>)

AttrsA == AttrsOf("Playing", FALSE, MetaB)

\* what stream() and capabilities() of PlayerBuilder meet on the bus
Replies ==
    { <<"SubscribeErr">>, <<"CallErr">>,
      <<"Reply", AttrsA>>,
      <<"Reply", AttrsOf("Playing", TRUE, MetaNoArtist)>> }

\* the changed maps of the PropertiesChanged signals
ChangedMaps ==
    { ("PlaybackStatus" :> Str("Paused")),
      ("PlaybackStatus" :> <<"I32", 42>>),
      ("PlaybackStatus" :> Str("Buffering")),
      ("Metadata" :> <<"Dict", MetaA>>),
      ("Metadata" :> Str("none")),
      ("CanGoPrevious" :> Bool(TRUE)),
      ("CanGoPrevious" :> Str("yes")),
      ("Volume" :> <<"F64", 2>>),
      ("PlaybackStatus" :> Str("Stopped")) @@ ("Metadata" :> <<"Dict", MetaA>>)
          @@ ("CanGoPrevious" :> Bool(TRUE)),
      ("Metadata" :> <<"Dict", MetaNoArtist>>) @@ ("CanGoPrevious" :> Bool(TRUE)) }

\* a PropertiesChanged body: (interface, changed, invalidated), or a body of
\* another shape
PropertyBodies == { <<"sa{sv}as", c>> : c \in ChangedMaps } \cup { <<"other">> }

(***************************************************************************)
(* The registry: HashMap<String, Option<Player>> (lines 585-588), as the   *)
(* set of its entries [name, player].                                      *)
(***************************************************************************)
Keys(ps) == { e.name : e \in ps }

Lookup(ps, name) == CHOOSE e \in ps : e.name = name

\* a plausible slip: entry().or_insert(), which keeps the entry the key has
InsertIfAbsent(ps, name, player) ==
    IF name \in Keys(ps) THEN ps ELSE ps \cup { [name |-> name, player |-> player] }

\* HashMap::insert: the entry of the key is replaced
Insert(ps, name, player) ==
    { e \in ps : e.name # name } \cup { [name |-> name, player |-> player] }

\* a plausible slip: the entry is looked up and left in the map
RemoveNothing(ps, name) == ps

\* a plausible slip: the entries matched by the namespace of the name
RemoveByPrefix(ps, name) == { e \in ps : e.name[1] # name[1] }

\* a plausible slip: the Option of the entry taken, the key left in the map
RemoveKeepingKey(ps, name) ==
    { e \in ps : e.name # name } \cup
    { [name |-> name, player |-> None] : e \in { x \in ps : x.name = name } }

\* HashMap::remove
Remove(ps, name) == { e \in ps : e.name # name }

\* the entry of `name` mutated in place through iter_mut (line 738)
SetPlayer(ps, name, player) ==
    { e \in ps : e.name # name } \cup { [name |-> name, player |-> Some(player)] }

\* the iteration orders of the map: HashMap iterates in an unspecified order
Orders(ps) ==
    { o \in [1..Cardinality(ps) -> Keys(ps)] :
        \A i, j \in 1..Cardinality(ps) : o[i] = o[j] => i = j }

(***************************************************************************)
(* PlayerBuilder (lines 456-505): stream() subscribes, capabilities()      *)
(* fetches and decodes, build() makes the Player; any error is returned.   *)
(***************************************************************************)
PlayerBuilderResult(reply) ==
    IF reply[1] = "SubscribeErr" THEN Err
    ELSE IF reply[1] = "CallErr" THEN Err
    ELSE The({ IF IsOk(properties)
               THEN Ok([capabilities |-> properties[2], stream |-> <<>>])
               ELSE Err
               : properties \in {CapabilitiesFromMap(reply[2])} })

(***************************************************************************)
(* Events (lines 565-582), each a sequence of the enum's names.            *)
(***************************************************************************)
NewPlayer == <<"NameOwnerChanged", "NewPlayer">>

RemovedPlayer == <<"NameOwnerChanged", "RemovedPlayer">>

PlayerUpdated(field) == <<"PlayerUpdated", field>>

NoName == <<"", "">>

(***************************************************************************)
(* MprisClient::handle_players_changed (lines 737-780) over the entries in *)
(* the iteration order `order`.  The result holds the registry after the   *)
(* call, the returned Option<MprisEvent>, whether the call panicked, and   *)
(* (for the history) the name of the player the call ended at.             *)
(***************************************************************************)
\* line 757: player.capabilities_mut().playback_status = ...
\* a plausible slip: the status written, the snapshot's other flags reset
SetPlaybackStatusResetting(player, status) ==
    [player EXCEPT !.capabilities.playback_status = status,
                   !.capabilities.can_previous = FALSE]

SetPlaybackStatus(player, status) == [player EXCEPT !.capabilities.playback_status = status]

\* line 772: player.capabilities_mut().can_previous = ...
SetCanPrevious(player, flag) == [player EXCEPT !.capabilities.can_previous = flag]

\* a plausible slip: a notification with none of the three keys ends the
\* call, as the one whose Metadata fails to decode does
ApplyChangedStopping(ps, name, player, changed) ==
    IF "PlaybackStatus" \in DOMAIN changed
    THEN IF IsOk(PlaybackStatusFromValue(changed["PlaybackStatus"]))
         THEN [players |-> SetPlayer(ps, name,
                              SetPlaybackStatus(player,
                                  PlaybackStatusFromValue(changed["PlaybackStatus"])[2])),
               ret |-> Some(PlayerUpdated("PlaybackStatus")),
               panic |-> FALSE, name |-> name, done |-> TRUE]
         ELSE [players |-> ps, ret |-> None, panic |-> TRUE, name |-> name, done |-> TRUE]
    ELSE IF "Metadata" \in DOMAIN changed
    THEN IF /\ changed["Metadata"][1] = "Dict"
            /\ ~IsOk(MetadataFromMap(changed["Metadata"][2]))
         THEN [players |-> ps, ret |-> None, panic |-> FALSE, name |-> name, done |-> TRUE]
         ELSE [players |-> ps, ret |-> Some(PlayerUpdated("Metadata")),
               panic |-> FALSE, name |-> name, done |-> TRUE]
    ELSE IF "CanGoPrevious" \in DOMAIN changed
    THEN IF IsOk(BoolFromValue(changed["CanGoPrevious"]))
         THEN [players |-> SetPlayer(ps, name,
                              SetCanPrevious(player, BoolFromValue(changed["CanGoPrevious"])[2])),
               ret |-> Some(PlayerUpdated("CanGoPrevious")),
               panic |-> FALSE, name |-> name, done |-> TRUE]
         ELSE [players |-> ps, ret |-> None, panic |-> TRUE, name |-> name, done |-> TRUE]
    ELSE [players |-> ps, ret |-> None, panic |-> FALSE, name |-> name, done |-> TRUE]

\* lines 755-775: the changed map of one notification applied to `player`
ApplyChanged(ps, name, player, changed) ==
    IF "PlaybackStatus" \in DOMAIN changed
    THEN IF IsOk(PlaybackStatusFromValue(changed["PlaybackStatus"]))
         THEN [players |-> SetPlayer(ps, name,
                              SetPlaybackStatus(player,
                                  PlaybackStatusFromValue(changed["PlaybackStatus"])[2])),
               ret |-> Some(PlayerUpdated("PlaybackStatus")),
               panic |-> FALSE, name |-> name, done |-> TRUE]
         ELSE [players |-> ps, ret |-> None, panic |-> TRUE, name |-> name, done |-> TRUE]
    ELSE IF "Metadata" \in DOMAIN changed
    THEN IF /\ changed["Metadata"][1] = "Dict"
            /\ ~IsOk(MetadataFromMap(changed["Metadata"][2]))
         THEN [players |-> ps, ret |-> None, panic |-> FALSE, name |-> name, done |-> TRUE]
         ELSE [players |-> ps, ret |-> Some(PlayerUpdated("Metadata")),
               panic |-> FALSE, name |-> name, done |-> TRUE]
    ELSE IF "CanGoPrevious" \in DOMAIN changed
    THEN IF IsOk(BoolFromValue(changed["CanGoPrevious"]))
         THEN [players |-> SetPlayer(ps, name,
                              SetCanPrevious(player, BoolFromValue(changed["CanGoPrevious"])[2])),
               ret |-> Some(PlayerUpdated("CanGoPrevious")),
               panic |-> FALSE, name |-> name, done |-> TRUE]
         ELSE [players |-> ps, ret |-> None, panic |-> TRUE, name |-> name, done |-> TRUE]
    ELSE [players |-> ps, ret |-> None, panic |-> FALSE, name |-> NoName, done |-> FALSE]

\* a plausible slip: the stream is drained, not polled once
PopStreamAll(player) == [player EXCEPT !.stream = <<>>]

\* line 743: poll_next_unpin takes the ready body off the stream
PopStream(player) == [player EXCEPT !.stream = Tail(@)]

\* lines 743-751: the stream of `name` polled; a ready body is taken off the
\* stream and decoded (unwrap: a body of another shape panics)
PollPlayer(ps, name) ==
    The({ IF entry.player = None
          THEN [players |-> ps, ret |-> None, panic |-> FALSE, name |-> NoName, done |-> FALSE]
          ELSE IF entry.player[1].stream = <<>>
          THEN [players |-> ps, ret |-> None, panic |-> FALSE, name |-> NoName, done |-> FALSE]
          ELSE The({ IF Head(entry.player[1].stream)[1] # "sa{sv}as"
                     THEN [players |-> SetPlayer(ps, name, player), ret |-> None,
                           panic |-> TRUE, name |-> name, done |-> TRUE]
                     ELSE ApplyChanged(SetPlayer(ps, name, player), name, player,
                                       Head(entry.player[1].stream)[2])
                     : player \in {PopStream(entry.player[1])} })
          : entry \in {Lookup(ps, name)} })

(***************************************************************************)
(* MprisClient::handle_player_changed (lines 696-735), on a Player the     *)
(* caller owns.  The result holds the player after the call, the returned  *)
(* Option<MprisEvent>, and whether the call panicked.                      *)
(***************************************************************************)
\* lines 713-732: the changed map applied; a Metadata that is no Dict is
\* passed over and the CanGoPrevious key looked at next
ApplyChangedToPlayer(player, changed) ==
    LET previous ==
            IF "CanGoPrevious" \in DOMAIN changed
            THEN IF IsOk(BoolFromValue(changed["CanGoPrevious"]))
                 THEN [player |-> SetCanPrevious(player, BoolFromValue(changed["CanGoPrevious"])[2]),
                       ret |-> Some(PlayerUpdated("CanGoPrevious")), panic |-> FALSE]
                 ELSE [player |-> player, ret |-> None, panic |-> TRUE]
            ELSE [player |-> player, ret |-> None, panic |-> FALSE]
    IN  IF "PlaybackStatus" \in DOMAIN changed
        THEN IF IsOk(PlaybackStatusFromValue(changed["PlaybackStatus"]))
             THEN [player |-> SetPlaybackStatus(player,
                                  PlaybackStatusFromValue(changed["PlaybackStatus"])[2]),
                   ret |-> Some(PlayerUpdated("PlaybackStatus")), panic |-> FALSE]
             ELSE [player |-> player, ret |-> None, panic |-> TRUE]
        ELSE IF "Metadata" \in DOMAIN changed /\ changed["Metadata"][1] = "Dict"
        THEN IF IsOk(MetadataFromMap(changed["Metadata"][2]))
             THEN [player |-> player, ret |-> Some(PlayerUpdated("Metadata")), panic |-> FALSE]
             ELSE [player |-> player, ret |-> None, panic |-> FALSE]
        ELSE previous

handle_player_changed(player) ==
    IF player.stream = <<>>
    THEN [player |-> player, ret |-> None, panic |-> FALSE]
    ELSE IF Head(player.stream)[1] # "sa{sv}as"
    THEN [player |-> PopStream(player), ret |-> None, panic |-> TRUE]
    ELSE ApplyChangedToPlayer(PopStream(player), Head(player.stream)[2])

RECURSIVE handle_players_changed(_, _)
handle_players_changed(ps, order) ==
    IF order = <<>>
    THEN [players |-> ps, ret |-> None, panic |-> FALSE, name |-> NoName]
    ELSE The({ IF r.done
               THEN [players |-> r.players, ret |-> r.ret, panic |-> r.panic, name |-> r.name]
               ELSE handle_players_changed(r.players, Tail(order))
               : r \in {PollPlayer(ps, Head(order))} })

(***************************************************************************)
(* MprisClient::handle_owner_changed (lines 656-694).  ret is the          *)
(* Result<Poll<NameOwnerChanged>>: Ok(Some(e)) for Ready(e), Ok(None) for  *)
(* Pending, Err.                                                           *)
(***************************************************************************)
\* a plausible slip: the match tests old_owner only, so that a replaced owner
\* counts as a loss
handle_owner_changed_old_only(ps, signal, reply) ==
    IF signal = <<>>
    THEN [players |-> ps, signal |-> signal, ret |-> Ok(None)]
    ELSE LET name      == Head(signal)[1]
             old_owner == Head(signal)[2]
             new_owner == Head(signal)[3]
         IN  IF StartsWith(name, MPRIS_PREFIX)
             THEN IF old_owner = "" /\ new_owner # ""
                  THEN IF IsOk(PlayerBuilderResult(reply))
                       THEN [players |-> Insert(ps, name, Some(PlayerBuilderResult(reply)[2])),
                             signal |-> Tail(signal), ret |-> Ok(Some(NewPlayer))]
                       ELSE [players |-> ps, signal |-> Tail(signal), ret |-> Err]
                  ELSE IF old_owner # ""
                  THEN [players |-> Remove(ps, name),
                        signal |-> Tail(signal), ret |-> Ok(Some(RemovedPlayer))]
                  ELSE [players |-> ps, signal |-> Tail(signal), ret |-> Ok(None)]
             ELSE [players |-> ps, signal |-> Tail(signal), ret |-> Ok(None)]

\* a plausible slip: the notification whose discovery failed is put back, to
\* be tried again by the next call
handle_owner_changed_retrying(ps, signal, reply) ==
    IF signal = <<>>
    THEN [players |-> ps, signal |-> signal, ret |-> Ok(None)]
    ELSE LET name      == Head(signal)[1]
             old_owner == Head(signal)[2]
             new_owner == Head(signal)[3]
         IN  IF StartsWith(name, MPRIS_PREFIX)
             THEN IF old_owner = "" /\ new_owner # ""
                  THEN IF IsOk(PlayerBuilderResult(reply))
                       THEN [players |-> Insert(ps, name, Some(PlayerBuilderResult(reply)[2])),
                             signal |-> Tail(signal), ret |-> Ok(Some(NewPlayer))]
                       ELSE [players |-> ps, signal |-> signal, ret |-> Err]
                  ELSE IF old_owner # "" /\ new_owner = ""
                  THEN [players |-> Remove(ps, name),
                        signal |-> Tail(signal), ret |-> Ok(Some(RemovedPlayer))]
                  ELSE [players |-> ps, signal |-> Tail(signal), ret |-> Ok(None)]
             ELSE [players |-> ps, signal |-> Tail(signal), ret |-> Ok(None)]

\* a plausible variant: RemovedPlayer only when the map held the key
handle_owner_changed_if_present(ps, signal, reply) ==
    IF signal = <<>>
    THEN [players |-> ps, signal |-> signal, ret |-> Ok(None)]
    ELSE LET name      == Head(signal)[1]
             old_owner == Head(signal)[2]
             new_owner == Head(signal)[3]
         IN  IF StartsWith(name, MPRIS_PREFIX)
             THEN IF old_owner = "" /\ new_owner # ""
                  THEN IF IsOk(PlayerBuilderResult(reply))
                       THEN [players |-> Insert(ps, name, Some(PlayerBuilderResult(reply)[2])),
                             signal |-> Tail(signal), ret |-> Ok(Some(NewPlayer))]
                       ELSE [players |-> ps, signal |-> Tail(signal), ret |-> Err]
                  ELSE IF old_owner # "" /\ new_owner = ""
                  THEN IF name \in Keys(ps)
                       THEN [players |-> Remove(ps, name),
                             signal |-> Tail(signal), ret |-> Ok(Some(RemovedPlayer))]
                       ELSE [players |-> ps, signal |-> Tail(signal), ret |-> Ok(None)]
                  ELSE [players |-> ps, signal |-> Tail(signal), ret |-> Ok(None)]
             ELSE [players |-> ps, signal |-> Tail(signal), ret |-> Ok(None)]

handle_owner_changed(ps, signal, reply) ==
    IF signal = <<>>
    THEN [players |-> ps, signal |-> signal, ret |-> Ok(None)]
    ELSE LET name      == Head(signal)[1]
             old_owner == Head(signal)[2]
             new_owner == Head(signal)[3]
         IN  IF StartsWith(name, MPRIS_PREFIX)
             THEN IF old_owner = "" /\ new_owner # ""
                  THEN The({ IF IsOk(p)
                             THEN [players |-> Insert(ps, name, Some(p[2])),
                                   signal |-> Tail(signal), ret |-> Ok(Some(NewPlayer))]
                             ELSE [players |-> ps, signal |-> Tail(signal), ret |-> Err]
                             : p \in {PlayerBuilderResult(reply)} })
                  ELSE IF old_owner # "" /\ new_owner = ""
                  THEN [players |-> Remove(ps, name),
                        signal |-> Tail(signal), ret |-> Ok(Some(RemovedPlayer))]
                  ELSE [players |-> ps, signal |-> Tail(signal), ret |-> Ok(None)]
             ELSE [players |-> ps, signal |-> Tail(signal), ret |-> Ok(None)]

\* a plausible variant: the ownership feed is handled first, the players'
\* streams only when it gave no event
eventOwnerFirst(ps, signal, order, reply) ==
    The({ IF IsOk(oc.ret) /\ oc.ret[2] # None
          THEN [players |-> oc.players, signal |-> oc.signal, ret |-> oc.ret[2],
                panic |-> FALSE, name |-> NoName]
          ELSE The({ [players |-> pc.players, signal |-> oc.signal, ret |-> pc.ret,
                      panic |-> pc.panic, name |-> pc.name]
                     : pc \in {handle_players_changed(oc.players, order)} })
          : oc \in {handle_owner_changed(ps, signal, reply)} })

(***************************************************************************)
(* MprisClient::event (lines 782-793).  name is, for the history, the      *)
(* player handle_players_changed ended at.                                 *)
(***************************************************************************)
event(ps, signal, order, reply) ==
    The({ IF pc.panic
          THEN [players |-> pc.players, signal |-> signal, ret |-> None,
                panic |-> TRUE, name |-> pc.name]
          ELSE IF pc.ret # None
          THEN [players |-> pc.players, signal |-> signal, ret |-> pc.ret,
                panic |-> FALSE, name |-> pc.name]
          ELSE The({ IF IsOk(oc.ret) /\ oc.ret[2] # None
                     THEN [players |-> oc.players, signal |-> oc.signal, ret |-> oc.ret[2],
                           panic |-> FALSE, name |-> pc.name]
                     ELSE [players |-> oc.players, signal |-> oc.signal, ret |-> None,
                           panic |-> FALSE, name |-> pc.name]
                     : oc \in {handle_owner_changed(pc.players, signal, reply)} })
          : pc \in {handle_players_changed(ps, order)} })

(***************************************************************************)
(* MprisClient::add (lines 604-615) and MprisClient::get_all (625-653).    *)
(***************************************************************************)
\* a plausible slip: the key inserted before the builder ran, left behind
\* with no player when the builder fails
addKeepingPartial(ps, name, reply) ==
    IF IsOk(PlayerBuilderResult(reply))
    THEN [players |-> Insert(ps, name, Some(PlayerBuilderResult(reply)[2])), ret |-> <<"Ok">>]
    ELSE [players |-> Insert(ps, name, None), ret |-> Err]

\* a plausible slip: a record whose re-discovery fails is taken for stale
\* and removed
addOrEvict(ps, name, reply) ==
    IF IsOk(PlayerBuilderResult(reply))
    THEN [players |-> Insert(ps, name, Some(PlayerBuilderResult(reply)[2])), ret |-> <<"Ok">>]
    ELSE [players |-> Remove(ps, name), ret |-> Err]

add(ps, name, reply) ==
    The({ IF IsOk(player)
          THEN [players |-> Insert(ps, name, Some(player[2])), ret |-> <<"Ok">>]
          ELSE [players |-> ps, ret |-> Err]
          : player \in {PlayerBuilderResult(reply)} })

\* lines 639-650: the loop over the listed names; bus[item] is what the
\* builder meets for item
RECURSIVE get_all_loop(_, _, _)
get_all_loop(ps, iter, bus) ==
    IF iter = <<>>
    THEN [players |-> ps, ret |-> <<"Ok">>]
    ELSE IF StartsWith(Head(iter), MPRIS_PREFIX)
    THEN The({ IF IsOk(player)
               THEN get_all_loop(Insert(ps, Head(iter), Some(player[2])), Tail(iter), bus)
               ELSE [players |-> ps, ret |-> Err]
               : player \in {PlayerBuilderResult(bus[Head(iter)])} })
    ELSE get_all_loop(ps, Tail(iter), bus)

\* names is None when the ListNames call (lines 626-637) fails
get_all(ps, names, bus) ==
    IF names = None THEN [players |-> ps, ret |-> Err]
    ELSE get_all_loop(ps, names[1], bus)

\* a plausible variant: a name that is not a key is None, not an error
getOrNone(ps, name) ==
    IF name \in Keys(ps) THEN Ok(Lookup(ps, name).player) ELSE Ok(None)

\* lines 617-622
get(ps, name) ==
    IF name \in Keys(ps) THEN Ok(Lookup(ps, name).player) ELSE Err

(***************************************************************************)
(* The SignalStreams.  PlayerBuilder::stream (lines 462-476) makes one;    *)
(* it is owned by the builder and then by the Player in the registry, and  *)
(* is dropped, which ends the subscription, where its owner goes out of    *)
(* scope: the builder on the error return of capabilities() (the `?` of    *)
(* lines 606-609, 641-644, 667-670), the Player that HashMap::insert       *)
(* replaces and returns (lines 612, 647, 675), and the Player that         *)
(* HashMap::remove returns (line 680).  Each operator gives the count of   *)
(* streams per name after the code it follows.                             *)
(***************************************************************************)
Subscribe(subs, name) == [subs EXCEPT ![name] = @ + 1]

Release(subs, name) == [subs EXCEPT ![name] = @ - 1]

\* a plausible slip: the builder's stream kept alive (stored, or forgotten)
\* when capabilities() fails
BuilderSubscriptionsLeaking(subs, name, reply, built) ==
    IF reply[1] = "SubscribeErr" THEN subs ELSE Subscribe(subs, name)

\* stream() then capabilities(), built being what the builder returns: the
\* builder, with its stream, is dropped when capabilities() returns the error
BuilderSubscriptions(subs, name, reply, built) ==
    IF reply[1] = "SubscribeErr" THEN subs
    ELSE IF IsOk(built) THEN Subscribe(subs, name)
    ELSE Release(Subscribe(subs, name), name)

\* self.players.insert(name, Some(player)): the Player the key had is dropped
InsertSubscriptions(ps, subs, name) ==
    IF name \in Keys(ps) /\ Lookup(ps, name).player # None THEN Release(subs, name) ELSE subs

\* self.players.remove(&name): the Player the key had is dropped
RemoveSubscriptions(ps, subs, name) ==
    IF name \in Keys(ps) /\ Lookup(ps, name).player # None THEN Release(subs, name) ELSE subs

\* the builder, and the insert that follows when it succeeds
DiscoverSubscriptions(ps, subs, name, reply) ==
    The({ IF IsOk(built)
          THEN InsertSubscriptions(ps, BuilderSubscriptions(subs, name, reply, built), name)
          ELSE BuilderSubscriptions(subs, name, reply, built)
          : built \in {PlayerBuilderResult(reply)} })

\* the loop of get_all (lines 639-650)
RECURSIVE get_all_subscriptions(_, _, _, _)
get_all_subscriptions(ps, subs, iter, bus) ==
    IF iter = <<>> THEN subs
    ELSE IF StartsWith(Head(iter), MPRIS_PREFIX)
    THEN The({ IF IsOk(built)
               THEN get_all_subscriptions(
                        Insert(ps, Head(iter), Some(built[2])),
                        InsertSubscriptions(ps,
                            BuilderSubscriptions(subs, Head(iter), bus[Head(iter)], built),
                            Head(iter)),
                        Tail(iter), bus)
               ELSE BuilderSubscriptions(subs, Head(iter), bus[Head(iter)], built)
               : built \in {PlayerBuilderResult(bus[Head(iter)])} })
    ELSE get_all_subscriptions(ps, subs, Tail(iter), bus)

\* handle_owner_changed (lines 661-690) having taken body off the feed
handle_owner_changed_subscriptions(ps, subs, body, reply) ==
    IF StartsWith(body[1], MPRIS_PREFIX)
    THEN IF body[2] = "" /\ body[3] # ""
         THEN DiscoverSubscriptions(ps, subs, body[1], reply)
         ELSE IF body[2] # "" /\ body[3] = ""
         THEN RemoveSubscriptions(ps, subs, body[1])
         ELSE subs
    ELSE subs

(***************************************************************************)
(* The state machine.  Init is the client MprisClient::new returns (lines  *)
(* 591-602); the bus delivers signals, the caller calls add, get_all and   *)
(* event.  A panic ends the program.                                       *)
(***************************************************************************)
Unused == <<"unused">>

\* op: the operation; player: the player handle_players_changed ended at;
\* owner: the name of the NameOwnerChanged body taken off the feed; ret: what
\* the operation returned; reply: what the builder met (for get_all, the
\* listed names it would succeed for)
Step(op, player, owner, ret, reply) ==
    [op |-> op, player |-> player, owner |-> owner, ret |-> ret, reply |-> reply]

Init ==
    /\ players = {}
    /\ owner_changed_signal = <<>>
    /\ emitted = <<>>
    /\ panicked = FALSE
    /\ live = {}
    /\ subscriptions = [n \in Names |-> 0]
    /\ inputs = 0
    /\ last = Step("new", NoName, NoName, <<>>, Unused)

\* the bus daemon emits NameOwnerChanged(body)
BusNameOwnerChanged(body) ==
    /\ ~panicked
    /\ inputs < MaxInputs
    /\ owner_changed_signal' = Append(owner_changed_signal, body)
    /\ inputs' = inputs + 1
    /\ last' = Step("signal", NoName, NoName, <<>>, Unused)
    /\ UNCHANGED <<players, emitted, panicked, live, subscriptions>>

\* the player `name`, subscribed to, emits PropertiesChanged(body)
PlayerPropertiesChanged(name, body) ==
    /\ ~panicked
    /\ inputs < MaxInputs
    /\ name \in Keys(players)
    /\ Lookup(players, name).player # None
    /\ players' = SetPlayer(players, name,
                            [Lookup(players, name).player[1] EXCEPT !.stream = Append(@, body)])
    /\ inputs' = inputs + 1
    /\ last' = Step("signal", NoName, NoName, <<>>, Unused)
    /\ UNCHANGED <<owner_changed_signal, emitted, panicked, live, subscriptions>>

Add(name, reply) ==
    /\ ~panicked
    /\ inputs < MaxInputs
    /\ inputs' = inputs + 1
    /\ \E r \in {add(players, name, reply)} :
          /\ players' = r.players
          /\ last' = Step("add", NoName, name, r.ret, reply)
          /\ live' = IF r.ret = <<"Ok">> THEN live \cup {name} ELSE live
    /\ subscriptions' = DiscoverSubscriptions(players, subscriptions, name, reply)
    /\ UNCHANGED <<owner_changed_signal, emitted, panicked>>

\* history: the names the loop of get_all discovers before it ends
RECURSIVE Discovered(_, _)
Discovered(iter, bus) ==
    IF iter = <<>> THEN {}
    ELSE IF Head(iter)[1] # MPRIS_PREFIX THEN Discovered(Tail(iter), bus)
    ELSE IF bus[Head(iter)][1] = "Reply" /\ IsOk(CapabilitiesFromMap(bus[Head(iter)][2]))
    THEN {Head(iter)} \cup Discovered(Tail(iter), bus)
    ELSE {}

\* what the builder meets for the names get_all lists
Buses == [{P1, P2} -> {<<"CallErr">>, <<"Reply", AttrsA>>}]

\* the lists ListNames may return: the owned names, each once, in any order
NameLists ==
    UNION { { o \in [1..Cardinality(S) -> S] :
                \A i, j \in 1..Cardinality(S) : o[i] = o[j] => i = j } : S \in SUBSET Names }

\* history: the listed media-player names whose discovery succeeds on this bus
Discoverable(iter, bus) ==
    { iter[i] : i \in { j \in 1..Len(iter) :
                           /\ StartsWith(iter[j], MPRIS_PREFIX)
                           /\ IsOk(PlayerBuilderResult(bus[iter[j]])) } }

GetAll(names, bus) ==
    /\ ~panicked
    /\ inputs < MaxInputs
    /\ inputs' = inputs + 1
    /\ \E r \in {get_all(players, names, bus)} :
          /\ players' = r.players
          /\ last' = Step("get_all", NoName, NoName, r.ret,
                          IF names = None THEN Unused
                          ELSE <<"Listed", Discoverable(names[1], bus)>>)
    /\ live' = IF names = None THEN live ELSE live \cup Discovered(names[1], bus)
    /\ subscriptions' = IF names = None THEN subscriptions
                        ELSE get_all_subscriptions(players, subscriptions, names[1], bus)
    /\ UNCHANGED <<owner_changed_signal, emitted, panicked>>

\* what the builder may meet in a call of event(): a reply, when the pending
\* NameOwnerChanged body makes handle_owner_changed call the builder
BuilderInputs(signal) ==
    IF signal # <<>> /\ Head(signal)[2] = "" /\ Head(signal)[3] # "" THEN Replies ELSE {Unused}

Event(order, reply) ==
    /\ ~panicked
    /\ \E r \in {event(players, owner_changed_signal, order, reply)} :
       LET polled == r.signal # owner_changed_signal
           body == Head(owner_changed_signal)
           gained == polled /\ body[1][1] = MPRIS_PREFIX /\ body[2] = "" /\ body[3] # ""
       IN  /\ players' = r.players
           /\ owner_changed_signal' = r.signal
           /\ panicked' = r.panic
           /\ emitted' = IF r.ret = None THEN emitted
                         ELSE Append(emitted, [event |-> r.ret[1],
                                               name |-> IF r.ret[1][1] = "NameOwnerChanged"
                                                        THEN body[1] ELSE r.name])
           /\ subscriptions' =
                 IF polled
                 THEN handle_owner_changed_subscriptions(players, subscriptions, body, reply)
                 ELSE subscriptions
           /\ live' = IF r.ret = Some(NewPlayer) THEN live \cup {body[1]}
                      ELSE IF r.ret = Some(RemovedPlayer) THEN live \ {body[1]}
                      ELSE live
           /\ last' = Step("event", r.name, IF polled THEN body[1] ELSE NoName,
                           IF r.ret = None THEN <<>> ELSE r.ret[1],
                           IF gained THEN reply ELSE Unused)
    /\ UNCHANGED inputs

Next ==
    \/ \E body \in OwnerBodies : BusNameOwnerChanged(body)
    \/ \E name \in Names, body \in PropertyBodies : PlayerPropertiesChanged(name, body)
    \/ \E name \in Names, reply \in Replies : Add(name, reply)
    \/ \E names \in {None} \cup { Some(l) : l \in NameLists }, bus \in Buses :
          GetAll(names, bus)
    \/ \E order \in Orders(players), reply \in BuilderInputs(owner_changed_signal) :
          Event(order, reply)

Spec == Init /\ [][Next]_vars

\* the caller polls again and again: event() is called in a loop, so a call
\* that can change the state is not put off for ever
Polls == \E order \in Orders(players), reply \in BuilderInputs(owner_changed_signal) :
             Event(order, reply)

SpecLive == Init /\ [][Next]_vars /\ WF_vars(Polls)

(***************************************************************************)
(* The decoders on their own: add() called with replies that hold an       *)
(* attribute map of every shape of DecodeAttrs, so that                    *)
(* PlayerCapabilities::try_from and Metadata::try_from meet each of them.  *)
(***************************************************************************)
\* the keys PlayerCapabilities::try_from requires (lines 365-426) and the
\* keys Metadata::try_from requires (lines 256-279)
RequiredKeys ==
    {"CanControl", "CanGoNext", "CanGoPrevious", "CanPause", "CanPlay", "CanSeek",
     "Metadata", "Rate", "PlaybackStatus", "Position"}

MetadataRequiredKeys == {"mpris:trackid", "xesam:artist", "xesam:title", "xesam:url"}

Without(map, key) == [k \in DOMAIN map \ {key} |-> map[k]]

\* the wire encodings a position and a length arrive in: unsigned and signed
\* 64-bit, of one magnitude, a negative signed one, and a 32-bit one
Durations == { <<"U64", 5>>, <<"I64", 5>>, <<"I64", -5>>, <<"I32", 5>> }

\* the attribute map `attrs` with its Position and its Metadata's mpris:length
\* replaced
WithDurations(attrs, position, length) ==
    [attrs EXCEPT !["Position"] = position,
                  !["Metadata"] = <<"Dict", ("mpris:length" :> length) @@ attrs["Metadata"][2]>>]

NumericAttrs ==
    { WithDurations(AttrsA, position, length) : position \in Durations, length \in Durations }

\* the optional properties of a player: each alone, all together, and one of
\* a type its binding does not convert from
OptionalProperties ==
    ("Shuffle" :> Bool(TRUE)) @@ ("LoopStatus" :> Str("Track")) @@
    ("MaximumRate" :> <<"F64", 2>>) @@ ("MinimumRate" :> <<"F64", 0>>) @@
    ("Volume" :> <<"F64", 1>>)

\* a Metadata with every optional entry of the type its match arm takes
MetaFull ==
    ("mpris:artUrl" :> Str("file:///art")) @@ ("xesam:albumArtist" :> <<"Array", <<Str("x"), Str("y")>>>>) @@
    ("xesam:trackNumber" :> <<"I32", 3>>) @@ ("xesam:discNumber" :> <<"I32", 1>>) @@
    ("xesam:autoRating" :> <<"F64", 1>>) @@ MetaB

OptionalAttrs ==
    { (k :> OptionalProperties[k]) @@ AttrsA : k \in DOMAIN OptionalProperties } \cup
    { OptionalProperties @@ AttrsOf("Paused", TRUE, MetaFull),
      ("Shuffle" :> Str("on")) @@ AttrsA,
      AttrsOf("Paused", TRUE, ("xesam:albumArtist" :> Str("x")) @@ MetaA),
      AttrsOf("Paused", TRUE, ("xesam:albumArtist" :> <<"Array", <<Str("x"), <<"I32", 1>>>>>>) @@ MetaA),
      AttrsOf("Paused", TRUE, ("xesam:trackNumber" :> Str("3")) @@ MetaA) }

\* the attribute maps of the GetAll replies: complete, with one required
\* key, of the map or of its Metadata, left out, with a position and a
\* length in each encoding, and with optional entries
DecodeAttrs ==
    {AttrsA, AttrsOf("Paused", TRUE, MetaA)} \cup
    { Without(AttrsA, k) : k \in RequiredKeys } \cup
    { AttrsOf("Playing", FALSE, Without(MetaB, k)) : k \in MetadataRequiredKeys } \cup
    NumericAttrs \cup OptionalAttrs

NextDecode == \E name \in {P1, P2}, attrs \in DecodeAttrs : Add(name, <<"Reply", attrs>>)

SpecDecode == Init /\ [][NextDecode]_vars

(***************************************************************************)
(* The metadata decoders on their own: Metadata::try_from called with the  *)
(* value (lines 130-234) and with the map (lines 236-338) of the           *)
(* dictionaries of MetaDicts.  last.reply is the argument, last.ret what   *)
(* the call returned; a call that reaches unreachable!() panics.           *)
(***************************************************************************)
\* the map with the optional entry: left out for None, set for Some(value)
WithKey(map, key, entry) == IF entry = None THEN map ELSE (key :> entry[1]) @@ map

\* what a player may send for xesam:albumArtist, xesam:trackNumber,
\* xesam:discNumber and xesam:autoRating: nothing, a value of the type the
\* decoder matches, and values of other types
AlbumArtists ==
    { None,
      Some(<<"Array", <<Str("x"), Str("y")>>>>),
      Some(<<"Array", <<Str("x"), <<"I32", 1>>>>>>),
      Some(Str("x")) }

TrackNumbers == { None, Some(<<"I32", 3>>), Some(Str("3")) }

DiscNumbers == { None, Some(<<"I32", 1>>), Some(<<"I64", 1>>) }

AutoRatings == { None, Some(<<"F64", 1>>), Some(<<"I32", 1>>) }

VendorDicts ==
    { WithKey(WithKey(WithKey(WithKey(MetaA, "xesam:albumArtist", a),
                              "xesam:trackNumber", t), "xesam:discNumber", d),
              "xesam:autoRating", r)
      : a \in AlbumArtists, t \in TrackNumbers, d \in DiscNumbers, r \in AutoRatings }

MetaDicts == VendorDicts \cup {MetaB, MetaNoArtist}

MetadataTryFromValue(value) ==
    /\ ~panicked
    /\ \E r \in {MetadataFromValue(value)} :
          /\ panicked' = (r = <<"Panic">>)
          /\ last' = Step("Metadata::try_from(&Value)", NoName, NoName, r, value)
    /\ UNCHANGED <<players, owner_changed_signal, emitted, live, subscriptions, inputs>>

MetadataTryFromMap(value) ==
    /\ ~panicked
    /\ last' = Step("Metadata::try_from(HashMap)", NoName, NoName, MetadataFromMap(value), value)
    /\ UNCHANGED <<players, owner_changed_signal, emitted, panicked, live, subscriptions, inputs>>

NextMetadata ==
    \/ \E value \in { <<"Dict", d>> : d \in MetaDicts } \cup { Str("none") } :
          MetadataTryFromValue(value)
    \/ \E value \in MetaDicts : MetadataTryFromMap(value)

SpecMetadata == Init /\ [][NextMetadata]_vars

(***************************************************************************)
(* The two handlers of the property-change notifications on their own: a   *)
(* client that holds one player, discovered by add() and with one or two   *)
(* notifications on its stream, on which the caller calls                  *)
(* handle_players_changed, or handle_player_changed with a Player of its   *)
(* own that has the same snapshot and stream.  last.reply is the Player    *)
(* after handle_player_changed, last.ret the Option<MprisEvent> returned.  *)
(***************************************************************************)
\* the streams of one and of two pending notifications
PendingStreams ==
    { <<b>> : b \in PropertyBodies } \cup { <<b, c>> : b \in PropertyBodies, c \in PropertyBodies }

InitHandlers ==
    \E attrs \in {AttrsA, AttrsOf("Paused", TRUE, MetaA)}, stream \in PendingStreams :
        /\ players = { [name |-> P1,
                        player |-> Some([capabilities |-> CapabilitiesFromMap(attrs)[2],
                                         stream |-> stream])] }
        /\ owner_changed_signal = <<>>
        /\ emitted = <<>>
        /\ panicked = FALSE
        /\ live = {P1}
        /\ subscriptions = [n \in Names |-> IF n = P1 THEN 1 ELSE 0]
        /\ inputs = 1 + Len(stream)
        /\ last = Step("signal", NoName, NoName, <<>>, Unused)

HandlePlayersChanged(order) ==
    /\ ~panicked
    /\ \E r \in {handle_players_changed(players, order)} :
          /\ players' = r.players
          /\ panicked' = r.panic
          /\ last' = Step("handle_players_changed", r.name, NoName, r.ret, Unused)
    /\ UNCHANGED <<owner_changed_signal, emitted, live, subscriptions, inputs>>

HandlePlayerChanged(name) ==
    /\ ~panicked
    /\ name \in Keys(players)
    /\ \E r \in {handle_player_changed(Lookup(players, name).player[1])} :
          /\ panicked' = r.panic
          /\ last' = Step("handle_player_changed", name, NoName, r.ret, r.player)
    /\ UNCHANGED <<players, owner_changed_signal, emitted, live, subscriptions, inputs>>

NextHandlers ==
    \/ \E order \in Orders(players) : HandlePlayersChanged(order)
    \/ \E name \in Names : HandlePlayerChanged(name)

SpecHandlers == InitHandlers /\ [][NextHandlers]_vars

(***************************************************************************)
(* Vocabulary of the properties.                                           *)
(***************************************************************************)
StreamOf(ps, name) == Lookup(ps, name).player[1].stream

CapsOf(ps, name) == Lookup(ps, name).player[1].capabilities

Recognised == {"PlaybackStatus", "Metadata", "CanGoPrevious"}

\* the field a PropertiesChanged body is reported for, "" when it is not
\* reported: the first of PlaybackStatus, Metadata, CanGoPrevious in the
\* changed map decides
ReportedField(body) ==
    IF body[1] # "sa{sv}as" THEN ""
    ELSE IF "PlaybackStatus" \in DOMAIN body[2]
    THEN IF body[2]["PlaybackStatus"] \in { Str(v) : v \in {"Stopped", "Paused", "Playing"} }
         THEN "PlaybackStatus" ELSE ""
    ELSE IF "Metadata" \in DOMAIN body[2]
    THEN IF body[2]["Metadata"][1] = "Dict" /\ ~IsOk(MetadataFromMap(body[2]["Metadata"][2]))
         THEN "" ELSE "Metadata"
    ELSE IF "CanGoPrevious" \in DOMAIN body[2]
    THEN IF body[2]["CanGoPrevious"][1] = "Bool" THEN "CanGoPrevious" ELSE ""
    ELSE ""

\* a body with nothing to report and nothing to fail on
Ignored(body) == body[1] = "sa{sv}as" /\ DOMAIN body[2] \cap Recognised = {}

Ready(ps, name) == Lookup(ps, name).player # None /\ StreamOf(ps, name) # <<>>

\* this step is a call of event()
IsEvent == last'.op = "event"

Reported(field) == last'.ret = PlayerUpdated(field)

ReportsUpdate == Len(last'.ret) = 2 /\ last'.ret[1] = "PlayerUpdated"

ReportsOwner == Len(last'.ret) = 2 /\ last'.ret[1] = "NameOwnerChanged"

\* (name, "", owner) and (name, owner, "") of a media player
Gained(body) == body[1][1] = MPRIS_PREFIX /\ body[2] = "" /\ body[3] # ""

Lost(body) == body[1][1] = MPRIS_PREFIX /\ body[2] # "" /\ body[3] = ""

(***************************************************************************)
(* C1, as amended: in one poll step the property-change notifications take *)
(* priority.  When some registered player holds a ready notification that  *)
(* is reported and none holds one that fails, the step reports a player    *)
(* update and leaves the ownership feed as it was; an ownership            *)
(* notification is taken off its feed only in a step that reports no       *)
(* player update.                                                          *)
(***************************************************************************)
C1_PropertyChangesFirst ==
    [][IsEvent =>
        /\ ( /\ \E n \in Keys(players) :
                   Ready(players, n) /\ ReportedField(Head(StreamOf(players, n))) # ""
             /\ \A n \in Keys(players) :
                   Ready(players, n) =>
                       \/ ReportedField(Head(StreamOf(players, n))) # ""
                       \/ Ignored(Head(StreamOf(players, n)))
             => ReportsUpdate /\ owner_changed_signal' = owner_changed_signal )
        /\ ( owner_changed_signal' # owner_changed_signal => ~ReportsUpdate )
      ]_vars

\* a step reported a player update while an ownership notification was ready
C1_Witness ==
    /\ last.op = "event"
    /\ Len(last.ret) = 2 /\ last.ret[1] = "PlayerUpdated"
    /\ owner_changed_signal # <<>>

(***************************************************************************)
(* C1 as claimed: a ready ownership notification is processed first, and   *)
(* property-change notifications are processed in the step only when no    *)
(* ownership notification was ready.                                       *)
(***************************************************************************)
C1_OwnershipFirst ==
    [][IsEvent /\ ~panicked' /\ owner_changed_signal # <<>> =>
        /\ owner_changed_signal' = Tail(owner_changed_signal)
        /\ ~ReportsUpdate
      ]_vars

(***************************************************************************)
(* C2, as amended: a poll step yields at most one event and takes at most  *)
(* the head off each feed, the rest staying queued in order; a             *)
(* property-change notification whose first recognised key decodes is,     *)
(* when taken, the one the step reports.  Only the record the step's       *)
(* ownership event removes or replaces loses its pending notifications.    *)
(***************************************************************************)
C2_OneEventFeedsKept ==
    [][IsEvent =>
        /\ \/ emitted' = emitted
           \/ Len(emitted') = Len(emitted) + 1 /\ SubSeq(emitted', 1, Len(emitted)) = emitted
        /\ \/ owner_changed_signal' = owner_changed_signal
           \/ owner_changed_signal # <<>> /\ owner_changed_signal' = Tail(owner_changed_signal)
        /\ \A n \in Keys(players) :
              \/ ReportsOwner /\ last'.owner = n
              \/ /\ n \in Keys(players')
                 /\ \/ StreamOf(players', n) = StreamOf(players, n)
                    \/ /\ StreamOf(players, n) # <<>>
                       /\ StreamOf(players', n) = Tail(StreamOf(players, n))
                       /\ ReportedField(Head(StreamOf(players, n))) # "" =>
                             /\ last'.player = n
                             /\ emitted' = Append(emitted,
                                   [event |-> PlayerUpdated(ReportedField(Head(StreamOf(players, n)))),
                                    name |-> n])
      ]_vars

\* a step reported one player's notification while another player's, which
\* a later step reports too, stayed queued
C2_Witness ==
    /\ last.op = "event"
    /\ Len(last.ret) = 2 /\ last.ret[1] = "PlayerUpdated"
    /\ \E n \in Keys(players) :
          /\ n # last.player
          /\ Ready(players, n)
          /\ ReportedField(Head(StreamOf(players, n))) # ""

(***************************************************************************)
(* C2 as claimed: a notification that carries a change (the gain or loss   *)
(* of a media player, a changed map with a recognised key) and is not the  *)
(* one the step reports stays queued in its feed.                          *)
(***************************************************************************)
C2_UnreportedStaysQueued ==
    [][IsEvent /\ ~panicked' =>
        /\ ( /\ owner_changed_signal # <<>>
             /\ Gained(Head(owner_changed_signal)) \/ Lost(Head(owner_changed_signal))
             /\ ~ReportsOwner
             => owner_changed_signal' = owner_changed_signal )
        /\ \A n \in Keys(players) :
              ( /\ Ready(players, n)
                /\ ~Ignored(Head(StreamOf(players, n)))
                /\ ~(ReportsUpdate /\ last'.player = n)
                => n \in Keys(players') /\ StreamOf(players', n) = StreamOf(players, n) )
      ]_vars

(***************************************************************************)
(* C3: the registry holds one entry per key, and its keys are the names    *)
(* discovered (add, get_all, ownership gained) and not removed since.      *)
(***************************************************************************)
C3_RegistryKeys ==
    /\ Cardinality(players) = Cardinality(Keys(players))
    /\ Keys(players) = live

\* P1 was discovered and then removed while another name stays registered
C3_Witness ==
    /\ \E i, j \in DOMAIN emitted :
          /\ i < j
          /\ emitted[i] = [event |-> NewPlayer, name |-> P1]
          /\ emitted[j] = [event |-> RemovedPlayer, name |-> P1]
    /\ P1 \notin Keys(players)
    /\ Keys(players) # {}

(***************************************************************************)
(* C4: a step that takes (name, "", owner) of a media player off the       *)
(* ownership feed and whose builder succeeds leaves `name` registered once, *)
(* with the snapshot decoded from the reply and a fresh stream, whatever   *)
(* record the name had, and reports exactly NewPlayer.                     *)
(***************************************************************************)
C4_Appeared ==
    [][ /\ IsEvent
        /\ owner_changed_signal' # owner_changed_signal
        /\ Gained(Head(owner_changed_signal))
        /\ last'.reply[1] = "Reply"
        /\ IsOk(CapabilitiesFromMap(last'.reply[2]))
        =>
        /\ Cardinality({ e \in players' : e.name = Head(owner_changed_signal)[1] }) = 1
        /\ Lookup(players', Head(owner_changed_signal)[1]).player =
              Some([capabilities |-> CapabilitiesFromMap(last'.reply[2])[2], stream |-> <<>>])
        /\ emitted' = Append(emitted, [event |-> NewPlayer, name |-> Head(owner_changed_signal)[1]])
      ]_vars

\* NewPlayer was reported for a name registered before, with another snapshot
C4_Witness ==
    /\ last.op = "event"
    /\ last.ret = NewPlayer
    /\ Len(emitted) >= 2
    /\ emitted[Len(emitted) - 1].name = last.owner
    /\ emitted[Len(emitted) - 1].event[1] = "PlayerUpdated"
    /\ last.owner \in Keys(players)

(***************************************************************************)
(* C5, as amended: when (P, "", owner) and then (P, owner, "") are taken   *)
(* off the ownership feed and the builder succeeds for the first, the      *)
(* steps report NewPlayer and then RemovedPlayer, and afterwards P is not   *)
(* registered: get(P) fails ("value did not exist"), it does not return    *)
(* None.                                                                   *)
(***************************************************************************)
\* the step takes the loss of P off the feed right after NewPlayer was reported for P
AppearedThenLost ==
    /\ IsEvent
    /\ owner_changed_signal' # owner_changed_signal
    /\ Lost(Head(owner_changed_signal))
    /\ emitted # <<>>
    /\ emitted[Len(emitted)] = [event |-> NewPlayer, name |-> Head(owner_changed_signal)[1]]

C5_AppearedThenRemoved ==
    [][AppearedThenLost =>
        /\ emitted' = Append(emitted,
                             [event |-> RemovedPlayer, name |-> Head(owner_changed_signal)[1]])
        /\ Head(owner_changed_signal)[1] \notin Keys(players')
        /\ get(players', Head(owner_changed_signal)[1]) = Err
      ]_vars

\* the two notifications of P1 were the only input, and both were reported
C5_Witness ==
    /\ inputs = 2
    /\ emitted = << [event |-> NewPlayer, name |-> P1], [event |-> RemovedPlayer, name |-> P1] >>
    /\ get(players, P1) = Err

(***************************************************************************)
(* C5 as claimed: after the two steps get(P) is None.                      *)
(***************************************************************************)
C5_GetIsNone ==
    [][AppearedThenLost =>
        /\ emitted' = Append(emitted,
                             [event |-> RemovedPlayer, name |-> Head(owner_changed_signal)[1]])
        /\ get(players', Head(owner_changed_signal)[1]) = Ok(None)
      ]_vars

(***************************************************************************)
(* C6: a step that ends at a player whose notification holds only a valid  *)
(* PlaybackStatus (only a boolean CanGoPrevious) sets that field of the    *)
(* player's snapshot to the new value, reports PlayerUpdated for the       *)
(* field, and leaves the other fields of the snapshot, the keys of the     *)
(* registry and the snapshots of the other players as they were.           *)
(***************************************************************************)
\* the step took the head off n's stream and handle_players_changed ended there
EndsAt(n) ==
    /\ IsEvent
    /\ Ready(players, n)
    /\ last'.player = n

\* the notification at the head of n's stream changes key and nothing else
OnlyKey(n, key) ==
    /\ Head(StreamOf(players, n))[1] = "sa{sv}as"
    /\ DOMAIN Head(StreamOf(players, n))[2] = {key}

OthersKept(n) ==
    /\ Keys(players') = Keys(players)
    /\ \A m \in Keys(players) \ {n} : CapsOf(players', m) = CapsOf(players, m)

C6_OnlyThatField ==
    [][\A n \in Keys(players) :
        /\ ( /\ EndsAt(n)
             /\ OnlyKey(n, "PlaybackStatus")
             /\ Head(StreamOf(players, n))[2]["PlaybackStatus"] \in
                   { Str(v) : v \in {"Stopped", "Paused", "Playing"} }
             =>
             /\ CapsOf(players', n) =
                   [CapsOf(players, n) EXCEPT
                       !.playback_status = Head(StreamOf(players, n))[2]["PlaybackStatus"][2]]
             /\ emitted' = Append(emitted, [event |-> PlayerUpdated("PlaybackStatus"), name |-> n])
             /\ OthersKept(n) )
        /\ ( /\ EndsAt(n)
             /\ OnlyKey(n, "CanGoPrevious")
             /\ Head(StreamOf(players, n))[2]["CanGoPrevious"][1] = "Bool"
             =>
             /\ CapsOf(players', n) =
                   [CapsOf(players, n) EXCEPT
                       !.can_previous = Head(StreamOf(players, n))[2]["CanGoPrevious"][2]]
             /\ emitted' = Append(emitted, [event |-> PlayerUpdated("CanGoPrevious"), name |-> n])
             /\ OthersKept(n) )
      ]_vars

\* P1 went from Playing to Paused, its metadata as decoded at discovery, next
\* to another registered player
C6_Witness ==
    /\ last.op = "event"
    /\ last.ret = PlayerUpdated("PlaybackStatus")
    /\ last.player = P1
    /\ {P1, P2} \subseteq Keys(players)
    /\ CapsOf(players, P1).playback_status = "Paused"
    /\ CapsOf(players, P1).metadata = MetadataFromMap(MetaB)[2]
    /\ CapsOf(players, P2).playback_status = "Playing"

(***************************************************************************)
(* C7: a notification whose PlaybackStatus is not a string (the integer    *)
(* 42) or is an unknown string is rejected with a decode error: the        *)
(* program goes on, the step reports no PlaybackStatus update, and the     *)
(* player's playback_status stays what it was.                             *)
(***************************************************************************)
\* the notification at the head of n's stream has the key, and whether its value decodes
HasKey(n, key) ==
    /\ Head(StreamOf(players, n))[1] = "sa{sv}as"
    /\ key \in DOMAIN Head(StreamOf(players, n))[2]

ValueOf(n, key) == Head(StreamOf(players, n))[2][key]

C7_BadStatusRejected ==
    [][\A n \in Keys(players) :
        /\ EndsAt(n)
        /\ HasKey(n, "PlaybackStatus")
        /\ ~IsOk(PlaybackStatusFromValue(ValueOf(n, "PlaybackStatus")))
        =>
        /\ ~panicked'
        /\ ~Reported("PlaybackStatus")
        /\ n \in Keys(players')
        /\ CapsOf(players', n).playback_status = CapsOf(players, n).playback_status
      ]_vars

(***************************************************************************)
(* C8: a notification whose Metadata is a dictionary that decodes replaces *)
(* the snapshot's metadata by the decoded one and is reported as           *)
(* PlayerUpdated(Metadata); and PlayerUpdated(Metadata) is reported only   *)
(* when the metadata was replaced by a decoded dictionary.                 *)
(***************************************************************************)
DecodesMetadata(n) ==
    /\ HasKey(n, "Metadata")
    /\ ValueOf(n, "Metadata")[1] = "Dict"
    /\ IsOk(MetadataFromMap(ValueOf(n, "Metadata")[2]))

C8_MetadataReplaced ==
    [][\A n \in Keys(players) :
        /\ ( /\ EndsAt(n)
             /\ ~HasKey(n, "PlaybackStatus")
             /\ DecodesMetadata(n)
             =>
             /\ Reported("Metadata")
             /\ CapsOf(players', n).metadata = MetadataFromMap(ValueOf(n, "Metadata")[2])[2] )
        /\ ( /\ EndsAt(n)
             /\ Reported("Metadata")
             =>
             /\ DecodesMetadata(n)
             /\ CapsOf(players', n).metadata = MetadataFromMap(ValueOf(n, "Metadata")[2])[2] )
      ]_vars

(***************************************************************************)
(* C9: a notification with several of the keys PlaybackStatus, Metadata,   *)
(* CanGoPrevious, each of which decodes, has every key applied and one     *)
(* PlayerUpdated reported per key, in the order PlaybackStatus, Metadata,  *)
(* CanGoPrevious.                                                          *)
(***************************************************************************)
\* the events of player n for the keys of the sequence that are in the notification
RECURSIVE UpdatesOf(_, _)
UpdatesOf(n, keys) ==
    IF keys = <<>> THEN <<>>
    ELSE IF HasKey(n, Head(keys))
    THEN <<[event |-> PlayerUpdated(Head(keys)), name |-> n]>> \o UpdatesOf(n, Tail(keys))
    ELSE UpdatesOf(n, Tail(keys))

AllDecode(n) ==
    /\ HasKey(n, "PlaybackStatus") => IsOk(PlaybackStatusFromValue(ValueOf(n, "PlaybackStatus")))
    /\ HasKey(n, "Metadata") => DecodesMetadata(n)
    /\ HasKey(n, "CanGoPrevious") => IsOk(BoolFromValue(ValueOf(n, "CanGoPrevious")))

C9_EveryKeyInOrder ==
    [][\A n \in Keys(players) :
        /\ EndsAt(n)
        /\ Head(StreamOf(players, n))[1] = "sa{sv}as"
        /\ Cardinality(DOMAIN Head(StreamOf(players, n))[2] \cap Recognised) > 1
        /\ AllDecode(n)
        =>
        /\ emitted' = emitted \o UpdatesOf(n, <<"PlaybackStatus", "Metadata", "CanGoPrevious">>)
        /\ HasKey(n, "PlaybackStatus") =>
              CapsOf(players', n).playback_status =
                  PlaybackStatusFromValue(ValueOf(n, "PlaybackStatus"))[2]
        /\ HasKey(n, "CanGoPrevious") =>
              CapsOf(players', n).can_previous = BoolFromValue(ValueOf(n, "CanGoPrevious"))[2]
      ]_vars

(***************************************************************************)
(* C10: when one key of a notification fails to decode, the player stays   *)
(* registered with that field as it was, and the other keys of the same    *)
(* notification are applied and reported.                                  *)
(***************************************************************************)
FailsMetadata(n) ==
    /\ HasKey(n, "Metadata")
    /\ ValueOf(n, "Metadata")[1] = "Dict"
    /\ ~IsOk(MetadataFromMap(ValueOf(n, "Metadata")[2]))

C10_FailureIsFieldScoped ==
    [][\A n \in Keys(players) :
        /\ EndsAt(n)
        /\ ~HasKey(n, "PlaybackStatus")
        /\ FailsMetadata(n)
        =>
        /\ n \in Keys(players')
        /\ CapsOf(players', n).metadata = CapsOf(players, n).metadata
        /\ CapsOf(players', n).playback_status = CapsOf(players, n).playback_status
        /\ HasKey(n, "CanGoPrevious") /\ IsOk(BoolFromValue(ValueOf(n, "CanGoPrevious"))) =>
              /\ CapsOf(players', n).can_previous =
                     BoolFromValue(ValueOf(n, "CanGoPrevious"))[2]
              /\ [event |-> PlayerUpdated("CanGoPrevious"), name |-> n] \in
                     { emitted'[i] : i \in (Len(emitted) + 1) .. Len(emitted') }
      ]_vars

(***************************************************************************)
(* C11: a discovery (add, an ownership gain taken by event, each name of   *)
(* get_all) either succeeds as a whole, and then the registry holds        *)
(* exactly one entry for the name, with the player built from the reply,   *)
(* or it leaves the registry as it was: no entry is added or changed.      *)
(***************************************************************************)
\* the player the builder makes of a reply
BuiltFrom(reply) == Some(PlayerBuilderResult(reply)[2])

\* every entry is as before the step, but for a notification taken off its stream
RecordsKept ==
    /\ Keys(players') = Keys(players)
    /\ Cardinality(players') = Cardinality(players)
    /\ \A n \in Keys(players) :
          /\ Lookup(players', n).player # None
          /\ CapsOf(players', n) = CapsOf(players, n)
          /\ \/ StreamOf(players', n) = StreamOf(players, n)
             \/ /\ StreamOf(players, n) # <<>>
                /\ StreamOf(players', n) = Tail(StreamOf(players, n))

\* the entry of name is the built player, the other entries are kept
RegisteredWhole(name, reply) ==
    /\ Keys(players') = Keys(players) \cup {name}
    /\ Cardinality({ e \in players' : e.name = name }) = 1
    /\ Lookup(players', name).player = BuiltFrom(reply)
    /\ \A n \in Keys(players) \ {name} :
          /\ Lookup(players', n).player # None
          /\ CapsOf(players', n) = CapsOf(players, n)

C11_DiscoveryAtomic ==
    [][ /\ last'.op = "add" =>
              IF IsOk(PlayerBuilderResult(last'.reply))
              THEN /\ RegisteredWhole(last'.owner, last'.reply)
                   /\ players' = Insert(players, last'.owner, BuiltFrom(last'.reply))
              ELSE players' = players
        /\ IsEvent /\ last'.reply # Unused =>
              IF IsOk(PlayerBuilderResult(last'.reply))
              THEN RegisteredWhole(last'.owner, last'.reply)
              ELSE RecordsKept
        /\ last'.op = "get_all" =>
              /\ Keys(players) \subseteq Keys(players')
              /\ Cardinality(players') = Cardinality(Keys(players'))
              /\ \A e \in players' :
                    \/ e \in players
                    \/ /\ last'.reply # Unused
                       /\ e.name \in last'.reply[2]
                       /\ e.player = BuiltFrom(<<"Reply", AttrsA>>)
      ]_vars

\* the discovery of a registered name failed in event(), the fetch or the
\* decode after the subscription had succeeded, and the record is as it was
C11_Witness ==
    /\ last.op = "event"
    /\ last.reply \in { <<"CallErr">>, <<"Reply", AttrsOf("Playing", TRUE, MetaNoArtist)>> }
    /\ last.owner \in Keys(players)
    /\ CapsOf(players, last.owner) = BuiltFrom(<<"Reply", AttrsA>>)[1].capabilities

(***************************************************************************)
(* C12: the decode of an attribute map that lacks a required key, of the   *)
(* map itself or of its Metadata dictionary, fails, and add() then         *)
(* returns the error and inserts nothing.                                  *)
(***************************************************************************)
MissingRequired(attrs) ==
    \/ RequiredKeys \ DOMAIN attrs # {}
    \/ /\ "Metadata" \in DOMAIN attrs
       /\ attrs["Metadata"][1] = "Dict"
       /\ MetadataRequiredKeys \ DOMAIN attrs["Metadata"][2] # {}

C12_MissingKeyFails ==
    [][ /\ last'.op = "add"
        /\ last'.reply[1] = "Reply"
        /\ MissingRequired(last'.reply[2])
        =>
        /\ ~IsOk(CapabilitiesFromMap(last'.reply[2]))
        /\ last'.ret = Err
        /\ players' = players
      ]_vars

\* add() failed on a map whose Metadata lacks xesam:url, and on a map without
\* Position before it, with a player registered
C12_Witness ==
    /\ last.op = "add"
    /\ last.ret = Err
    /\ last.reply[1] = "Reply"
    /\ "Metadata" \in DOMAIN last.reply[2]
    /\ "xesam:url" \notin DOMAIN last.reply[2]["Metadata"][2]
    /\ players # {}
    /\ inputs = 3

(***************************************************************************)
(* C13: a step that takes the loss of a name that is not registered does   *)
(* not fail (no panic, the handler returns normally, which event() shows   *)
(* as RemovedPlayer) and leaves the registry as it was; so does a second   *)
(* removal right after a first.                                            *)
(***************************************************************************)
\* the step takes a NameOwnerChanged body off the feed
TakesOwner == IsEvent /\ owner_changed_signal' # owner_changed_signal

C13_RemovalIdempotent ==
    [][ /\ TakesOwner
        /\ Lost(Head(owner_changed_signal))
        /\ Head(owner_changed_signal)[1] \notin Keys(players)
        =>
        /\ ~panicked'
        /\ last'.ret = RemovedPlayer
        /\ RecordsKept
      ]_vars

\* P1 appeared, was removed, and was removed a second time
C13_Witness ==
    /\ emitted = << [event |-> NewPlayer, name |-> P1],
                    [event |-> RemovedPlayer, name |-> P1],
                    [event |-> RemovedPlayer, name |-> P1] >>
    /\ players = {}

(***************************************************************************)
(* C14, as amended: PlayerUpdated is reported only for a registered name   *)
(* and only its notification is applied; RemovedPlayer for P leaves P      *)
(* unregistered; and P becomes registered again by NewPlayer for P or by   *)
(* a call of add or get_all, which report no event.  So after              *)
(* RemovedPlayer for P no PlayerUpdated for P is reported until P is       *)
(* registered again.                                                       *)
(***************************************************************************)
C14_NoUpdateWhileUnregistered ==
    [][ /\ IsEvent /\ ReportsUpdate =>
              /\ last'.player \in Keys(players) \cap Keys(players')
              /\ emitted' = Append(emitted, [event |-> last'.ret, name |-> last'.player])
        /\ IsEvent /\ last'.ret = RemovedPlayer =>
              /\ last'.owner \notin Keys(players')
              /\ emitted' = Append(emitted, [event |-> RemovedPlayer, name |-> last'.owner])
        /\ \A n \in Keys(players') \ Keys(players) :
              \/ last'.op \in {"add", "get_all"} /\ emitted' = emitted
              \/ /\ IsEvent
                 /\ emitted' = Append(emitted, [event |-> NewPlayer, name |-> n])
        /\ \A n \in Keys(players) \cap Keys(players') :
              CapsOf(players', n) # CapsOf(players, n) =>
                 \/ IsEvent /\ ReportsUpdate /\ last'.player = n
                 \/ last'.op \in {"add", "get_all"}
                 \/ IsEvent /\ last'.ret = NewPlayer /\ last'.owner = n
      ]_vars

\* P1 was removed, appeared again, and an update of it was reported
C14_Witness ==
    /\ Len(emitted) = 3
    /\ emitted[1] = [event |-> RemovedPlayer, name |-> P1]
    /\ emitted[2] = [event |-> NewPlayer, name |-> P1]
    /\ emitted[3].name = P1
    /\ emitted[3].event[1] = "PlayerUpdated"

(***************************************************************************)
(* C14 as claimed: between RemovedPlayer for P and a later PlayerUpdated   *)
(* for P there is a NewPlayer for P.                                       *)
(***************************************************************************)
C14_NoUpdateUntilAppeared ==
    \A i, j \in 1..Len(emitted) :
        /\ i < j
        /\ emitted[i].event = RemovedPlayer
        /\ emitted[j].event[1] = "PlayerUpdated"
        /\ emitted[j].name = emitted[i].name
        =>
        \E k \in (i + 1)..(j - 1) :
            emitted[k] = [event |-> NewPlayer, name |-> emitted[i].name]

(***************************************************************************)
(* C15: the notifications of one player are taken off its stream in the    *)
(* order delivered, so that once the last one is processed every field a   *)
(* notification changed holds the value that notification gave it: the     *)
(* step that takes the last queued notification of a player leaves each    *)
(* field named in it at the notification's value.                          *)
(***************************************************************************)
C15_LastDeliveredWins ==
    [][\A n \in Keys(players) :
        /\ EndsAt(n)
        /\ Len(StreamOf(players, n)) = 1
        /\ Head(StreamOf(players, n))[1] = "sa{sv}as"
        /\ AllDecode(n)
        =>
        /\ n \in Keys(players')
        /\ StreamOf(players', n) = <<>>
        /\ HasKey(n, "PlaybackStatus") =>
              CapsOf(players', n).playback_status =
                  PlaybackStatusFromValue(ValueOf(n, "PlaybackStatus"))[2]
        /\ HasKey(n, "Metadata") =>
              CapsOf(players', n).metadata = MetadataFromMap(ValueOf(n, "Metadata")[2])[2]
        /\ HasKey(n, "CanGoPrevious") =>
              CapsOf(players', n).can_previous = BoolFromValue(ValueOf(n, "CanGoPrevious"))[2]
      ]_vars

(***************************************************************************)
(* C16: in every state the SignalStreams not yet dropped are those of the  *)
(* registered names, one each: removing a record and replacing a record    *)
(* drop the stream the record held, and a failed discovery leaves none.    *)
(***************************************************************************)
C16_SubscriptionsAreRecords ==
    \A n \in Names : subscriptions[n] = IF n \in Keys(players) THEN 1 ELSE 0

\* NewPlayer was reported twice for P1: the record of the first, and the
\* stream it held, was replaced by the second
C16_Witness ==
    /\ emitted = << [event |-> NewPlayer, name |-> P1], [event |-> NewPlayer, name |-> P1] >>
    /\ inputs = 3
    /\ owner_changed_signal = <<>>
    /\ subscriptions[P1] = 1

(***************************************************************************)
(* C17: a step that takes a NameOwnerChanged body whose name is outside    *)
(* the media-player namespace, or whose old and new owner are both         *)
(* non-empty or both empty, reports no event and leaves the registry as    *)
(* it was.                                                                 *)
(***************************************************************************)
NoLifecycleChange(body) ==
    \/ ~StartsWith(body[1], MPRIS_PREFIX)
    \/ body[2] # "" /\ body[3] # ""
    \/ body[2] = "" /\ body[3] = ""

C17_OwnerNoOp ==
    [][ TakesOwner /\ NoLifecycleChange(Head(owner_changed_signal))
        =>
        /\ ~panicked'
        /\ last'.ret = <<>>
        /\ emitted' = emitted
        /\ RecordsKept
        /\ owner_changed_signal' = Tail(owner_changed_signal)
      ]_vars

\* a body of the registered P1 that is neither a gain nor a loss was taken
C17_Witness ==
    /\ last.op = "event"
    /\ last.owner = P1
    /\ last.ret = <<>>
    /\ last.reply = Unused
    /\ P1 \in Keys(players)
    /\ emitted = <<>>
    /\ inputs = 3
    /\ owner_changed_signal = <<>>

(***************************************************************************)
(* C18: a registered name leaves the registry only in a step that takes    *)
(* the loss (old owner non-empty, new owner empty) of that very name; no   *)
(* failed call, failed re-discovery, decode failure, panic or              *)
(* property-change notification removes a name.                            *)
(***************************************************************************)
C18_RemovedOnlyWhenLost ==
    [][\A n \in Keys(players) \ Keys(players') :
        /\ TakesOwner
        /\ Head(owner_changed_signal)[1] = n
        /\ Lost(Head(owner_changed_signal))
        /\ last'.ret = RemovedPlayer
      ]_vars

\* P2 was removed by its loss, and P1 stayed when its re-discovery failed
C18_Witness ==
    /\ last.op = "event"
    /\ last.reply = <<"SubscribeErr">>
    /\ last.owner = P1
    /\ P1 \in Keys(players)
    /\ P2 \notin Keys(players)
    /\ emitted = << [event |-> RemovedPlayer, name |-> P2] >>
    /\ live = {P1}

(***************************************************************************)
(* C19: get_all registers every listed media-player name whose discovery   *)
(* succeeds, whatever happens to the other listed names, and registers no  *)
(* name outside the namespace.                                             *)
(***************************************************************************)
C19_EveryDiscoverableRegistered ==
    [][ last'.op = "get_all" /\ last'.reply[1] = "Listed"
        =>
        /\ last'.reply[2] \subseteq Keys(players')
        /\ \A n \in Keys(players') \ Keys(players) : StartsWith(n, MPRIS_PREFIX)
      ]_vars

(***************************************************************************)
(* C20: no notification, whatever the shape of its body and the types of   *)
(* its values, makes a step panic: every call of event() returns.          *)
(***************************************************************************)
C20_NeverPanics == ~panicked

(***************************************************************************)
(* C21: a Position and an mpris:length are accepted in the signed and in   *)
(* the unsigned 64-bit encoding; a signed one, negative ones included, is  *)
(* never what makes the decode fail; and the signed and the unsigned       *)
(* encoding of one magnitude give the same u64, in the decoder and in the  *)
(* snapshot add() registers.                                               *)
(***************************************************************************)
\* the value in the other 64-bit encoding, for a magnitude both encodings have
Reencoded(value) ==
    IF value[1] = "I64" /\ value[2] >= 0 THEN <<"U64", value[2]>>
    ELSE IF value[1] = "U64" THEN <<"I64", value[2]>>
    ELSE value

LengthIn(attrs) == attrs["Metadata"][2]["mpris:length"]

\* the reply of the step holds a Position and a length, both in a 64-bit encoding
SixtyFourBit(attrs) ==
    /\ {"Position", "Metadata"} \subseteq DOMAIN attrs
    /\ attrs["Metadata"][1] = "Dict"
    /\ "mpris:length" \in DOMAIN attrs["Metadata"][2]
    /\ attrs["Position"][1] \in {"I64", "U64"}
    /\ LengthIn(attrs)[1] \in {"I64", "U64"}

C21_BothWidths ==
    [][ /\ last'.op = "add"
        /\ last'.reply[1] = "Reply"
        /\ SixtyFourBit(last'.reply[2])
        =>
        LET attrs == last'.reply[2]
            other == WithDurations(attrs, Reencoded(attrs["Position"]), Reencoded(LengthIn(attrs)))
        IN  /\ IsOk(PositionOf(attrs))
            /\ IsOk(LengthOf(attrs["Metadata"][2]))
            /\ PositionOf(other) = PositionOf(attrs)
            /\ LengthOf(other["Metadata"][2]) = LengthOf(attrs["Metadata"][2])
            /\ IsOk(CapabilitiesFromMap(WithDurations(attrs, <<"U64", 0>>, <<"U64", 0>>))) =>
                  /\ last'.ret = <<"Ok">>
                  /\ CapabilitiesFromMap(other) = CapabilitiesFromMap(attrs)
                  /\ CapsOf(players', last'.owner) = CapabilitiesFromMap(other)[2]
                  /\ CapsOf(players', last'.owner).position =
                        IF attrs["Position"][2] >= 0
                        THEN <<0, attrs["Position"][2]>> ELSE <<1, attrs["Position"][2]>>
      ]_vars

\* P1 was registered from a signed, P2 from an unsigned Position and length
\* of the same magnitude, and their snapshots are the same
C21_Witness ==
    /\ last.op = "add"
    /\ last.ret = <<"Ok">>
    /\ last.owner = P1
    /\ last.reply = <<"Reply", WithDurations(AttrsA, <<"I64", 5>>, <<"I64", 5>>)>>
    /\ {P1, P2} \subseteq Keys(players)
    /\ CapsOf(players, P2) = CapsOf(players, P1)
    /\ CapsOf(players, P2) =
          CapabilitiesFromMap(WithDurations(AttrsA, <<"U64", 5>>, <<"U64", 5>>))[2]
    /\ CapsOf(players, P1).position = <<0, 5>>
    /\ CapsOf(players, P1).metadata.length = Some(<<0, 5>>)

(***************************************************************************)
(* C22: in both metadata decoders each of xesam:albumArtist,               *)
(* xesam:trackNumber, xesam:discNumber and xesam:autoRating is unset when  *)
(* its key is absent, and a key present with a wrong type (for the album   *)
(* artists: not an array, or an array with an element that is not a        *)
(* string) makes the decode return an error: it is not dropped, coerced or *)
(* turned into unset, and the decoder does not panic.                      *)
(***************************************************************************)
\* the step is a call of a metadata decoder with the dictionary last'.reply holds
DecodesDict ==
    \/ last'.op = "Metadata::try_from(HashMap)"
    \/ last'.op = "Metadata::try_from(&Value)" /\ last'.reply[1] = "Dict"

DictOf(step) == IF step.op = "Metadata::try_from(HashMap)" THEN step.reply ELSE step.reply[2]

\* the vendor fields of the decoded Metadata, and for each key the types its value may have
VendorField ==
    [ k \in {"xesam:albumArtist", "xesam:trackNumber", "xesam:discNumber", "xesam:autoRating"} |->
        CASE k = "xesam:albumArtist" -> "album_artists"
          [] k = "xesam:trackNumber" -> "track_number"
          [] k = "xesam:discNumber" -> "disc_number"
          [] k = "xesam:autoRating" -> "auto_rating" ]

WellTyped(key, value) ==
    CASE key = "xesam:albumArtist" -> IsOk(StringVecFromValue(value))
      [] key = "xesam:trackNumber" -> value[1] = "I32"
      [] key = "xesam:discNumber" -> value[1] = "I32"
      [] key = "xesam:autoRating" -> value[1] = "F64"

C22_VendorFieldsStrict ==
    [][ DecodesDict =>
        \A k \in DOMAIN VendorField :
            /\ k \notin DOMAIN DictOf(last') /\ IsOk(last'.ret) =>
                  last'.ret[2][VendorField[k]] = None
            /\ k \in DOMAIN DictOf(last') /\ ~WellTyped(k, DictOf(last')[k]) =>
                  last'.ret = Err
      ]_vars

(***************************************************************************)
(* C23: the full decode of an attribute map whose required keys all have   *)
(* an accepted representation succeeds (unless an optional entry is of a   *)
(* type the decoder rejects with an error), and in the decoded snapshot    *)
(* each optional field (LoopStatus, MinimumRate, MaximumRate, Shuffle,     *)
(* Volume, and the optional fields of the metadata) is exactly the value   *)
(* supplied when its key is present and is unset when its key is absent.   *)
(***************************************************************************)
\* every required key of the map and of its Metadata has a value the decoder takes
RequiredAccepted(attrs) ==
    /\ RequiredKeys \subseteq DOMAIN attrs
    /\ \A k \in {"CanControl", "CanGoNext", "CanGoPrevious", "CanPause", "CanPlay", "CanSeek"} :
          attrs[k][1] = "Bool"
    /\ attrs["Rate"][1] = "F64"
    /\ attrs["PlaybackStatus"] \in { Str(v) : v \in {"Stopped", "Paused", "Playing"} }
    /\ attrs["Position"][1] \in {"I64", "U64"}
    /\ attrs["Metadata"][1] = "Dict"
    /\ MetadataRequiredKeys \subseteq DOMAIN attrs["Metadata"][2]
    /\ attrs["Metadata"][2]["mpris:trackid"][1] \in {"ObjectPath", "Str"}
    /\ IsOk(StringVecFromValue(attrs["Metadata"][2]["xesam:artist"]))
    /\ attrs["Metadata"][2]["xesam:title"][1] = "Str"
    /\ attrs["Metadata"][2]["xesam:url"][1] = "Str"

\* the optional keys, as the field of the snapshot (of its metadata) each is decoded to
OptionalField ==
    ("Shuffle" :> "shuffle") @@ ("LoopStatus" :> "loop_status") @@
    ("MaximumRate" :> "max_rate") @@ ("MinimumRate" :> "min_rate") @@ ("Volume" :> "volume")

OptionalMetadataField ==
    ("mpris:artUrl" :> "art_url") @@ ("mpris:length" :> "length") @@ ("xesam:album" :> "album") @@
    ("xesam:albumArtist" :> "album_artists") @@ ("xesam:trackNumber" :> "track_number") @@
    ("xesam:discNumber" :> "disc_number") @@ ("xesam:autoRating" :> "auto_rating")

\* the types of an optional entry that the decoder answers with an error
Rejected(key, value) ==
    CASE key \in {"Shuffle"} -> value[1] # "Bool"
      [] key = "LoopStatus" -> value \notin { Str(v) : v \in {"None", "Playlist", "Track"} }
      [] key \in {"MaximumRate", "MinimumRate", "Volume", "xesam:autoRating"} -> value[1] # "F64"
      [] key \in {"mpris:artUrl", "xesam:album"} -> value[1] # "Str"
      [] key = "mpris:length" -> value[1] \notin {"I64", "U64"}
      [] key \in {"xesam:trackNumber", "xesam:discNumber"} -> value[1] # "I32"
      [] key = "xesam:albumArtist" -> FALSE

\* the value supplied, as a value of the field: the payload, a length as the
\* u64 of its encoding, the album artists as the sequence of the elements
Supplied(key, value) ==
    CASE key = "mpris:length" -> (IF value[1] = "I64" THEN I64AsU64(value[2]) ELSE U64(value[2]))
      [] key = "xesam:albumArtist" ->
            (IF value[1] = "Array" THEN [i \in 1..Len(value[2]) |-> value[2][i][2]] ELSE value[2])
      [] OTHER -> value[2]

C23_OptionalFieldsExact ==
    [][ /\ last'.op = "add"
        /\ last'.reply[1] = "Reply"
        /\ RequiredAccepted(last'.reply[2])
        =>
        LET attrs == last'.reply[2]
            meta  == attrs["Metadata"][2]
        IN  /\ ( /\ \A k \in DOMAIN OptionalField \cap DOMAIN attrs : ~Rejected(k, attrs[k])
                 /\ \A k \in DOMAIN OptionalMetadataField \cap DOMAIN meta : ~Rejected(k, meta[k])
                 => last'.ret = <<"Ok">> )
            /\ last'.ret = <<"Ok">> =>
                  /\ \A k \in DOMAIN OptionalField :
                        CapsOf(players', last'.owner)[OptionalField[k]] =
                            IF k \in DOMAIN attrs THEN Some(Supplied(k, attrs[k])) ELSE None
                  /\ \A k \in DOMAIN OptionalMetadataField :
                        CapsOf(players', last'.owner).metadata[OptionalMetadataField[k]] =
                            IF k \in DOMAIN meta THEN Some(Supplied(k, meta[k])) ELSE None
      ]_vars

(***************************************************************************)
(* C24: once no further notification arrives, the repeated calls of        *)
(* event() take every pending notification off the ownership feed and off  *)
(* the stream of every registered player: from some step on both kinds of  *)
(* feed stay empty, neither having been starved by the other, and a call   *)
(* of event() on empty feeds reports no event and leaves them empty.       *)
(***************************************************************************)
\* nothing is pending, on the ownership feed and on the registered players' streams
Drained ==
    /\ owner_changed_signal = <<>>
    /\ \A n \in Keys(players) : Lookup(players, n).player # None => StreamOf(players, n) = <<>>

C24_EventuallyDrained ==
    /\ <>[]Drained
    /\ [][IsEvent /\ Drained => last'.ret = <<>> /\ emitted' = emitted /\ Drained']_vars

(***************************************************************************)
(* C25: a call of event() that gets to the ownership feed (no player       *)
(* update reported, no panic) with the gain of a media-player name at its  *)
(* head takes that notification off the feed; when the discovery fails     *)
(* (subscription, fetch or decode) the call returns no event, nothing is   *)
(* emitted, and every record, that of the name included, is as it was.     *)
(* The discovery is not tried again by itself: a name becomes registered   *)
(* only by add, by get_all, or by a call of event() that takes a gain of   *)
(* that name off the feed.                                                 *)
(***************************************************************************)
C25_FailedDiscoveryDropped ==
    [][ /\ ( /\ IsEvent
             /\ ~panicked'
             /\ ~ReportsUpdate
             /\ owner_changed_signal # <<>>
             /\ Gained(Head(owner_changed_signal))
             =>
             /\ owner_changed_signal' = Tail(owner_changed_signal)
             /\ last'.reply \in Replies
             /\ IF IsOk(PlayerBuilderResult(last'.reply))
                THEN last'.ret = NewPlayer
                ELSE /\ last'.ret = <<>>
                     /\ emitted' = emitted
                     /\ RecordsKept )
        /\ \A n \in Keys(players') \ Keys(players) :
              \/ last'.op \in {"add", "get_all"}
              \/ /\ TakesOwner
                 /\ Gained(Head(owner_changed_signal))
                 /\ Head(owner_changed_signal)[1] = n
      ]_vars

\* the discovery of P1 failed in a call of event(), which reported nothing:
\* the feed is empty, and P1 is not registered while P2 is
C25_Witness ==
    /\ last.op = "event"
    /\ last.owner = P1
    /\ last.reply \in Replies
    /\ ~IsOk(PlayerBuilderResult(last.reply))
    /\ last.ret = <<>>
    /\ owner_changed_signal = <<>>
    /\ Keys(players) = {P2}
    /\ emitted = <<>>

(***************************************************************************)
(* C26: on the same snapshot and the same pending notification,            *)
(* handle_player_changed and handle_players_changed (on a registry that    *)
(* holds that player only) return the same event, leave the same snapshot  *)
(* and stream, and panic on the same notifications, whichever of           *)
(* PlaybackStatus, Metadata and CanGoPrevious the notification holds and   *)
(* whether their values are of the right type.                             *)
(***************************************************************************)
C26_HandlersAgree ==
    [][ last'.op = "handle_player_changed" /\ Cardinality(players) = 1
        =>
        \A order \in Orders(players) :
            LET r == handle_players_changed(players, order)
            IN  /\ last'.ret = r.ret
                /\ panicked' = r.panic
                /\ Some(last'.reply) = Lookup(r.players, last'.player).player
      ]_vars

(***************************************************************************)
(* C27: the two metadata decoders agree on every dictionary: the one       *)
(* called returns what the other returns for the same dictionary, the same *)
(* Metadata or an error, and neither panics, dictionaries whose            *)
(* xesam:trackNumber, xesam:discNumber or xesam:autoRating is of a wrong   *)
(* type included.                                                          *)
(***************************************************************************)
C27_DecodersAgree ==
    [][ DecodesDict =>
        /\ ~panicked'
        /\ last'.ret = IF last'.op = "Metadata::try_from(&Value)"
                       THEN MetadataFromMap(DictOf(last'))
                       ELSE MetadataFromValue(<<"Dict", DictOf(last')>>)
      ]_vars

(***************************************************************************)
(* C28: a call of event() that takes the loss of a media-player name off   *)
(* the ownership feed reports RemovedPlayer for that name, registered or   *)
(* not; for a name that is not registered the registry keeps its keys and  *)
(* every record its snapshot (the same call may have taken an unreported   *)
(* notification off a player's stream), so that RemovedPlayer is emitted   *)
(* for a name for which no NewPlayer was.                                  *)
(***************************************************************************)
C28_RemovedWhetherRegistered ==
    [][ TakesOwner /\ Lost(Head(owner_changed_signal))
        =>
        /\ last'.ret = RemovedPlayer
        /\ emitted' = Append(emitted,
                             [event |-> RemovedPlayer, name |-> Head(owner_changed_signal)[1]])
        /\ Head(owner_changed_signal)[1] \notin Keys(players')
        /\ Head(owner_changed_signal)[1] \notin Keys(players) => RecordsKept
      ]_vars

\* the loss of P2 was the only notification delivered and the only other
\* input registered P1: RemovedPlayer for P2, never registered, is all that
\* was emitted
C28_Witness ==
    /\ inputs = 2
    /\ last.op = "event"
    /\ last.owner = P2
    /\ last.ret = RemovedPlayer
    /\ emitted = << [event |-> RemovedPlayer, name |-> P2] >>
    /\ Keys(players) = {P1}

(***************************************************************************)
(* C29: in every state every entry of the registry holds a player          *)
(* (Some, never None), so that get(name) is Ok(Some(record)) for every     *)
(* registered name, the error "value did not exist" for every name that    *)
(* is not registered, and never Ok(None).                                  *)
(***************************************************************************)
C29_EntriesPresent ==
    /\ \A e \in players : e.player # None
    /\ \A n \in Names :
          /\ get(players, n) # Ok(None)
          /\ IF n \in Keys(players)
             THEN /\ IsOk(get(players, n))
                  /\ get(players, n)[2] = Some([capabilities |-> CapsOf(players, n),
                                                stream |-> StreamOf(players, n)])
             ELSE get(players, n) = Err

\* P1 is registered and P2 is not: RemovedPlayer for P2 is the last event
\* emitted, and an add() of P2 has failed since
C29_Witness ==
    /\ last.op = "add"
    /\ last.owner = P2
    /\ last.ret = Err
    /\ get(players, P2) = Err
    /\ IsOk(get(players, P1))
    /\ get(players, P1)[2] # None
    /\ emitted # <<>>
    /\ emitted[Len(emitted)] = [event |-> RemovedPlayer, name |-> P2]

(***************************************************************************)
(* C30: a notification whose changed map holds none of PlaybackStatus,     *)
(* Metadata and CanGoPrevious is taken off its stream without an event     *)
(* for it and without a change of any snapshot, and does not end the call: *)
(* the call ends at a player with another kind of notification ready when  *)
(* there is one (and may report it), and goes on to the ownership feed     *)
(* when there is none.                                                     *)
(***************************************************************************)
\* the players with a notification ready that is not passed over
Deciding == { m \in Keys(players) : Ready(players, m) /\ ~Ignored(Head(StreamOf(players, m))) }

\* the call took the ready notification of n, one with no recognised key
TakesIgnored(n) ==
    /\ IsEvent
    /\ Ready(players, n)
    /\ Ignored(Head(StreamOf(players, n)))
    /\ ~(ReportsOwner /\ last'.owner = n)
    /\ n \in Keys(players')
    /\ StreamOf(players', n) = Tail(StreamOf(players, n))

C30_IgnoredAndGoesOn ==
    [][ /\ \A n \in Keys(players) :
              TakesIgnored(n) =>
                  /\ last'.player # n
                  /\ CapsOf(players', n) = CapsOf(players, n)
                  /\ \A m \in Keys(players) \cap Keys(players') :
                        CapsOf(players', m) # CapsOf(players, m) =>
                            \/ m = last'.player /\ ReportsUpdate
                            \/ m = last'.owner /\ ReportsOwner
        /\ IsEvent =>
              IF Deciding # {}
              THEN last'.player \in Deciding
              ELSE /\ last'.player = NoName
                   /\ \A n \in Keys(players) : Ready(players, n) => TakesIgnored(n) \/ ReportsOwner
                   /\ owner_changed_signal # <<>> =>
                         owner_changed_signal' = Tail(owner_changed_signal)
      ]_vars

\* of the three inputs one registered P1 and P2 and two were notifications
\* of P1: the first, passed over, was taken by a call that went on and
\* found nothing to report, the second is still on the stream
C30_Witness ==
    /\ inputs = 3
    /\ last.op = "event"
    /\ last.ret = <<>>
    /\ last.player = NoName
    /\ last.owner = NoName
    /\ ~panicked
    /\ Keys(players) = {P1, P2}
    /\ StreamOf(players, P1) = << <<"sa{sv}as", ("PlaybackStatus" :> Str("Paused"))>> >>
    /\ StreamOf(players, P2) = <<>>
    /\ emitted = <<>>

====
